---- MODULE Spec2Model ----
(***************************************************************************)
(* The per-request endpoint invocation pipeline of the oas package:        *)
(* the declaration surface of an endpoint (NewEndpoint, Version,           *)
(* Parameter, RequestBody, Response, Define) and endpointObject.Call with  *)
(* parseRequest and runUserDefinedFunc.                                    *)
(*                                                                         *)
(* Conventions.  A URL path "/a/b" is the sequence <<"a","b">> of the      *)
(* texts that follow each '/', so strings.Split(path, "/") is              *)
(* <<"">> \o path.  A template segment is a record [ph, s]: ph = TRUE is   *)
(* the placeholder "{s}".  Go slice and map indices are zero based; the    *)
(* element at Go index i of a sequence q is q[i + 1].  A Go nil is a       *)
(* record of kind "nil".  JSON documents are records [type, ...]; an       *)
(* object carries its members in the function "fields".                    *)
(***************************************************************************)
EXTENDS Integers, Sequences, FiniteSets, TLC

VARIABLES
    spec,     \* the openAPI object: settings, middleware, routes
    setup,    \* the declaration program of the endpoint and the position in it;
              \* later: a setter of the service was called after Define returned
    ep,       \* the endpointObject
    call,     \* the Call in progress: locals of Call, its writer, its log lines
    other     \* a second Call in progress at the same time, on another goroutine

vars == <<spec, setup, ep, call, other>>

-----------------------------------------------------------------------------
(* Bounds of the model *)

\* the number of middleware functions the service is constructed with: 0..MaxMiddleware
MaxMiddleware == 2

(* Program constants *)

StatusOK == 200
StatusBadRequest == 400
StatusInternalServerError == 500
DefaultJSONIndent == 2

-----------------------------------------------------------------------------
(* Go values *)

Nil == [kind |-> "nil"]

EmptyMap == [x \in {} |-> Nil]

Put(m, k, v) == [x \in (DOMAIN m) \cup {k} |-> IF x = k THEN v ELSE m[x]]

\* the zero value of Response
ZeroResponse ==
    [kind |-> "Response", Ignore |-> FALSE, Status |-> 0, Body |-> Nil, Headers |-> EmptyMap]

\* strconv.Itoa / %v of the numbers the requests and responses use
Itoa(n) ==
    CASE n = 0 -> "0"
      [] n = 4 -> "4"
      [] n = 10 -> "10"
      [] n = 200 -> "200"
      [] n = 204 -> "204"
      [] n = 400 -> "400"
      [] n = 404 -> "404"
      [] n = 500 -> "500"
      [] OTHER -> "N"

-----------------------------------------------------------------------------
(* JSON documents and schemas *)

JNull == [type |-> "null"]
JString(s) == [type |-> "string", val |-> s]
JInteger(i) == [type |-> "integer", val |-> i]
JBoolean(b) == [type |-> "boolean", val |-> b]
JArray(n) == [type |-> "array", len |-> n]
JObject(f) == [type |-> "object", fields |-> f]

\* a schema: {"type": t, "required": [...], "properties": {...}}; t = "any" is no type keyword
Schema(t, req, props) == [kind |-> "json", type |-> t, required |-> req, properties |-> props]
TypeSchema(t) == Schema(t, {}, EmptyMap)

TypeMatches(t, doc) ==
    \/ t = "any"
    \/ t = doc.type
    \/ t = "number" /\ doc.type = "integer"

\* The violations of a document against a schema, each an entry
\* [context, description] as gojsonschema reports them (e.Context(), e.Description()).
RECURSIVE Violations(_, _, _)
Violations(schema, doc, context) ==
    IF ~TypeMatches(schema.type, doc)
    THEN {[context |-> context, description |-> <<"Invalid type", schema.type>>]}
    ELSE IF doc.type # "object" THEN {}
    ELSE
        {[context |-> context, description |-> <<n, "is required">>] :
            n \in {r \in schema.required : r \notin DOMAIN doc.fields}}
        \cup UNION {Violations(schema.properties[n], doc.fields[n], context \o <<n>>) :
                        n \in (DOMAIN schema.properties) \cap (DOMAIN doc.fields)}

-----------------------------------------------------------------------------
(* Errors *)

\* errors.New(text); the text is kept as the sequence of its parts
NewError(text) == [kind |-> "error", text |-> text]

\* err.Error()
ErrorText(err) ==
    IF err.kind = "jsonValidationError"
    THEN <<"JSONValidationError:">>
    ELSE err.text

\* errors.WithMessage(err, message): message + ": " + err.Error(), a plain error;
\* message is the sequence of the parts of the message
WithMessage(err, message) == NewError(message \o ErrorText(err))

newMalformedJSONError(err) ==
    [kind |-> "malformedJSONError",
     text |-> <<"request contains malformed JSON: ">> \o ErrorText(err)]

\* one entry per violation: "At <context>: <description>"
newJSONValidationError(violations) ==
    [kind |-> "jsonValidationError", Type |-> "JSONValidationError", Errors |-> violations]

newParameterTypeError(param, expectedType, found) ==
    [kind |-> "jsonValidationError", Type |-> "ParameterTypeError",
     Errors |-> {[context |-> <<param.In, param.Name>>,
                  description |-> <<"expected", found, "to be convertible to type", expectedType>>]}]

\* strconv.Quote: the text as one quoted string
Quote(text) == [quoted |-> text]

errorToJSON(err) ==
    [kind |-> "RawMessage", message |-> "Internal Server Error", details |-> Quote(ErrorText(err))]

-----------------------------------------------------------------------------
(* Schemas as the declarations give them, and their compilation *)

\* oas.Ref(name)
Ref(name) == [kind |-> "Ref", name |-> name]

toSwaggerSchema(ref) == [kind |-> "swaggerRef", name |-> ref.name]

toJSONSchema(ref) == [kind |-> "fileRef", name |-> ref.name]

\* the schema files of the schemas directory
SchemaFiles ==
    [SearchResults |-> Schema("object", {"title"}, [title |-> TypeSchema("string")])]

\* gojsonschema.NewSchema succeeds when every reference of the document resolves
\* and every sub-schema is an object
RECURSIVE Compilable(_)
Compilable(node) ==
    CASE node.kind = "json" ->
            \A n \in DOMAIN node.properties : Compilable(node.properties[n])
      [] node.kind = "fileRef" -> node.name \in DOMAIN SchemaFiles
      [] OTHER -> FALSE

RECURSIVE ResolveRefs(_)
ResolveRefs(node) ==
    IF node.kind = "fileRef" THEN SchemaFiles[node.name]
    ELSE [node EXCEPT !.properties =
                [n \in DOMAIN node.properties |-> ResolveRefs(node.properties[n])]]

\* gojsonschema.NewSchema(gojsonschema.NewGoLoader(document))
NewSchema(document) ==
    IF Compilable(document)
    THEN [schema |-> ResolveRefs(document), err |-> Nil]
    ELSE [schema |-> Nil, err |-> NewError(<<"schema does not compile">>)]

-----------------------------------------------------------------------------
(* The declaration surface of an endpoint *)

InQuery == "query"
InPath == "path"
InHeader == "header"

Placeholder(name) == [ph |-> TRUE, s |-> name]
Literal(text) == [ph |-> FALSE, s |-> text]

\* strings.Split(path, "/") of a template: the empty text before the first '/'
SplitTemplate(path) == <<Literal("")>> \o path

\* the placeholders of the template, each with the Go index of its segment
ParsePath(path) ==
    LET splitPath == SplitTemplate(path)
        names == {splitPath[i].s : i \in {j \in 1..Len(splitPath) : splitPath[j].ph}}
    IN [n \in names |-> (CHOOSE i \in 1..Len(splitPath) :
                            /\ splitPath[i].ph /\ splitPath[i].s = n
                            /\ \A j \in (i + 1)..Len(splitPath) :
                                    ~(splitPath[j].ph /\ splitPath[j].s = n)) - 1]

NewEndpoint(operationId, method, path) ==
    [kind |-> "endpointObject",
     doc |-> [OperationId |-> <<operationId>>,
              Parameters |-> <<>>,
              RequestBody |-> Nil,
              Responses |-> EmptyMap],
     path |-> path,
     method |-> method,
     version |-> 0,
     err |-> Nil,
     userDefinedFunc |-> Nil,
     fullyWrappedFunc |-> Nil,
     parsedPath |-> ParsePath(path),
     bodyType |-> Nil,
     query |-> <<>>,
     params |-> EmptyMap,
     headers |-> <<>>,
     dataSchema |-> Nil,
     responseSchemas |-> EmptyMap]

\* the end of openAPI.NewEndpoint: the endpoint is entered into the endpoints of the
\* service under its operation id, or, when the id is taken, its err is set
RegisterEndpoint(sp, e) ==
    IF e.doc.OperationId[1] \in sp.endpoints
    THEN [e |-> [e EXCEPT !.err = NewError(<<"duplicate endpoint definition for operationId: ">>
                                           \o e.doc.OperationId)],
          sp |-> sp]
    ELSE [e |-> e, sp |-> [sp EXCEPT !.endpoints = @ \cup {e.doc.OperationId[1]}]]

\* fmt.Sprintf("v%v", version), for the versions the declarations use
SprintfV(version) ==
    CASE version = 1 -> "v1"
      [] version = 2 -> "v2"
      [] version = 3 -> "v3"
      [] OTHER -> "vN"

\* Version that takes effect on every call with a positive version
Version_EveryCall(e, version) ==
    IF version <= 0 THEN e
    ELSE [e EXCEPT !.doc.OperationId = @ \o <<"_", SprintfV(version)>>,
                   !.path = <<Literal(SprintfV(version))>> \o @,
                   !.version = version]

\* the operation id is kept as the sequence of its parts, the path as its segments
Version(e, version) ==
    IF version <= 0 \/ e.version # 0 THEN e
    ELSE [e EXCEPT !.doc.OperationId = @ \o <<"_", SprintfV(version)>>,
                   !.path = <<Literal(SprintfV(version))>> \o @,
                   !.version = version]

Parameter(e, in, name, required, schema, kind) ==
    LET param == [Name |-> name, In |-> in, Required |-> required, Schema |-> schema]
        t == [kind |-> kind, Name |-> name, In |-> in, Required |-> required, Schema |-> schema]
        e1 == [e EXCEPT !.doc.Parameters = Append(@, param)]
    IN CASE in = InQuery -> [e1 EXCEPT !.query = Append(@, t)]
         [] in = InPath ->
                IF name \notin DOMAIN e.parsedPath
                THEN e1  \* only an error line is printed
                ELSE [e1 EXCEPT !.params = Put(@, e.parsedPath[name], t)]
         [] in = InHeader -> [e1 EXCEPT !.headers = Append(@, t)]
         [] OTHER -> e1

\* object is the Go value whose type the body is read into; bodyType is its type
RequestBody(e, required, schema, object) ==
    [e EXCEPT !.bodyType = object,
              !.doc.RequestBody = [kind |-> "RequestBody", Required |-> required, Schema |-> schema]]

Response(e, code, schema) ==
    [e EXCEPT !.doc.Responses = Put(@, code, [Schema |-> schema])]

\* one call of the declaration surface, as a declaration program lists it
ApplyDeclaration(e, d) ==
    CASE d.op = "Version" -> Version(e, d.version)
      [] d.op = "Parameter" -> Parameter(e, d.in, d.name, d.required, d.schema, d.kind)
      [] d.op = "RequestBody" -> RequestBody(e, d.required, d.schema, d.object)
      [] d.op = "Response" -> Response(e, d.code, d.schema)

-----------------------------------------------------------------------------
(* Define: one-time compilation of the schemas, composition of the handler *)

\* the loop with every parameter added to the required list of its sub-schema
RECURSIVE DefineParameters_AllRequired(_, _)
DefineParameters_AllRequired(acc, i) ==
    IF i > Len(acc.Parameters) THEN acc
    ELSE
        LET p == acc.Parameters[i]
            add(schema) == [schema EXCEPT !.properties = Put(@, p.Name, p.Schema),
                                          !.required = @ \cup {p.Name}]
        IN CASE p.In = InQuery ->
                    DefineParameters_AllRequired([acc EXCEPT !.querySchema = add(@)], i + 1)
             [] p.In = InPath ->
                    DefineParameters_AllRequired([acc EXCEPT !.paramsSchema = add(@)], i + 1)
             [] p.In = InHeader ->
                    DefineParameters_AllRequired([acc EXCEPT !.headersSchema = add(@)], i + 1)
             [] OTHER ->
                    [acc EXCEPT !.err =
                        NewError(<<"invalid value for 'in' on parameter: ", p.Name>>)]

\* the loop over doc.Parameters, from Go index i - 1 on; acc holds the three
\* sub-schemas, the parameters of the documentation and the error of an early return
RECURSIVE DefineParameters(_, _)
DefineParameters(acc, i) ==
    IF i > Len(acc.Parameters) THEN acc
    ELSE
        LET p == acc.Parameters[i]
            isRef == p.Schema.kind = "Ref"
            jsonSchema == IF isRef THEN toJSONSchema(p.Schema) ELSE p.Schema
            docParams == IF isRef
                         THEN [acc.Parameters EXCEPT ![i].Schema = toSwaggerSchema(p.Schema)]
                         ELSE acc.Parameters
            add(schema) == [schema EXCEPT
                                !.properties = Put(@, p.Name, jsonSchema),
                                !.required = IF p.Required THEN @ \cup {p.Name} ELSE @]
        IN CASE p.In = InQuery ->
                    DefineParameters([acc EXCEPT !.Parameters = docParams,
                                                 !.querySchema = add(@)], i + 1)
             [] p.In = InPath ->
                    DefineParameters([acc EXCEPT !.Parameters = docParams,
                                                 !.paramsSchema = add(@)], i + 1)
             [] p.In = InHeader ->
                    DefineParameters([acc EXCEPT !.Parameters = docParams,
                                                 !.headersSchema = add(@)], i + 1)
             [] OTHER ->
                    [acc EXCEPT !.err =
                        NewError(<<"invalid value for 'in' on parameter: ", p.Name>>)]

\* the loop over doc.Responses.Codes, visiting the codes in the order given (Go
\* ranges over the map in an order of its choosing); acc holds the responses of the
\* documentation, the compiled schemas and the error of an early return
RECURSIVE DefineResponses(_, _, _)
DefineResponses(acc, order, i) ==
    IF i > Len(order) THEN acc
    ELSE
        LET code == order[i]
            schema == acc.Responses[code].Schema
        IN IF schema.kind = "nil" THEN DefineResponses(acc, order, i + 1)
           ELSE
             LET isRef == schema.kind = "Ref"
                 loader == IF isRef THEN toJSONSchema(schema) ELSE schema
                 responses == IF isRef
                              THEN [acc.Responses EXCEPT ![code].Schema = toSwaggerSchema(schema)]
                              ELSE acc.Responses
                 compiled == NewSchema(loader)
                 acc1 == [acc EXCEPT !.Responses = responses,
                                     !.responseSchemas = Put(@, code, compiled.schema)]
             IN IF compiled.err.kind # "nil"
                THEN [acc1 EXCEPT !.err = WithMessage(compiled.err, <<"failed to load response schema: ", Itoa(code)>>)]
                ELSE DefineResponses(acc1, order, i + 1)

\* middleware[i](handler)
ApplyMiddleware(m, handler) == [kind |-> "wrapped", by |-> m, next |-> handler]

\* the loop run from the first middleware to the last: the last becomes the outermost
RECURSIVE Compose_Forward(_, _, _)
Compose_Forward(middleware, i, handler) ==
    IF i < 1 THEN handler
    ELSE ApplyMiddleware(middleware[i], Compose_Forward(middleware, i - 1, handler))

\* for i := len(middleware) - 1; i >= 0; i-- { handler = middleware[i](handler) },
\* from Go index i - 1 down
RECURSIVE Compose(_, _, _)
Compose(middleware, i, handler) ==
    IF i < 1 THEN handler
    ELSE Compose(middleware, i - 1, ApplyMiddleware(middleware[i], handler))

\* Define that creates the route and composes the handler before it compiles the schemas
Define_RoutesFirst(e, sp, f, order) ==
    LET e0 == [e EXCEPT !.userDefinedFunc = f]
        emptyObject == Schema("object", {}, EmptyMap)
        body == e0.doc.RequestBody
        bodyIsRef == body.kind # "nil" /\ body.Schema.kind = "Ref"
        bodySchema == IF bodyIsRef THEN toJSONSchema(body.Schema) ELSE body.Schema
        e1 == IF bodyIsRef
              THEN [e0 EXCEPT !.doc.RequestBody.Schema = toSwaggerSchema(body.Schema)]
              ELSE e0
        top == {"Query", "Params", "Headers"}
                \cup (IF body.kind # "nil" /\ body.Required THEN {"Body"} ELSE {})
        ps == DefineParameters([Parameters |-> e1.doc.Parameters,
                                querySchema |-> emptyObject,
                                paramsSchema |-> emptyObject,
                                headersSchema |-> emptyObject,
                                err |-> Nil], 1)
        e2 == [e1 EXCEPT !.doc.Parameters = ps.Parameters]
        properties == [Query |-> ps.querySchema, Params |-> ps.paramsSchema,
                       Headers |-> ps.headersSchema]
        dataSchema == Schema("object", top,
                             IF body.kind # "nil"
                             THEN Put(properties, "Body", bodySchema)
                             ELSE properties)
        compiled == NewSchema(dataSchema)
        e3 == [e2 EXCEPT !.dataSchema = compiled.schema]
        rs == DefineResponses([Responses |-> e3.doc.Responses,
                               responseSchemas |-> e3.responseSchemas,
                               err |-> Nil], order, 1)
        e4 == [e3 EXCEPT !.doc.Responses = rs.Responses,
                         !.responseSchemas = rs.responseSchemas]
        handler == IF e4.userDefinedFunc.kind # "nil"
                   THEN e4.userDefinedFunc
                   ELSE [kind |-> "func", name |-> "UserDefinedFunc"]
        wrapped == Compose(sp.middleware, Len(sp.middleware), handler)
        routed == [sp EXCEPT !.paths = Put(@, <<e0.path, e0.method>>, e0.doc),
                             !.routes = @ \cup {[method |-> e0.method, path |-> e0.path]}]
    IN CASE ps.err.kind # "nil" ->
                [e |-> [e2 EXCEPT !.fullyWrappedFunc = wrapped], sp |-> routed, err |-> ps.err]
         [] compiled.err.kind # "nil" ->
                [e |-> [e3 EXCEPT !.fullyWrappedFunc = wrapped], sp |-> routed,
                 err |-> WithMessage(compiled.err, <<"failed to load dataSchema for endpoint: ">>
                                                     \o e3.doc.OperationId)]
         [] rs.err.kind # "nil" ->
                [e |-> [e4 EXCEPT !.fullyWrappedFunc = wrapped], sp |-> routed, err |-> rs.err]
         [] OTHER -> [e |-> [e4 EXCEPT !.fullyWrappedFunc = wrapped], sp |-> routed, err |-> Nil]

\* Define(f) on endpoint e of service sp; order is the order in which the range
\* over the response codes visits them.  The result is the endpoint and the service
\* as Define leaves them, and the error it returns.
Define(e, sp, f, order) ==
    LET e0 == [e EXCEPT !.userDefinedFunc = f]
        emptyObject == Schema("object", {}, EmptyMap)
        body == e0.doc.RequestBody
        bodyIsRef == body.kind # "nil" /\ body.Schema.kind = "Ref"
        bodySchema == IF bodyIsRef THEN toJSONSchema(body.Schema) ELSE body.Schema
        e1 == IF bodyIsRef
              THEN [e0 EXCEPT !.doc.RequestBody.Schema = toSwaggerSchema(body.Schema)]
              ELSE e0
        top == {"Query", "Params", "Headers"}
                \cup (IF body.kind # "nil" /\ body.Required THEN {"Body"} ELSE {})
        ps == DefineParameters([Parameters |-> e1.doc.Parameters,
                                querySchema |-> emptyObject,
                                paramsSchema |-> emptyObject,
                                headersSchema |-> emptyObject,
                                err |-> Nil], 1)
        e2 == [e1 EXCEPT !.doc.Parameters = ps.Parameters]
        properties == [Query |-> ps.querySchema, Params |-> ps.paramsSchema,
                       Headers |-> ps.headersSchema]
        dataSchema == Schema("object", top,
                             IF body.kind # "nil"
                             THEN Put(properties, "Body", bodySchema)
                             ELSE properties)
        compiled == NewSchema(dataSchema)
        e3 == [e2 EXCEPT !.dataSchema = compiled.schema]
        rs == DefineResponses([Responses |-> e3.doc.Responses,
                               responseSchemas |-> e3.responseSchemas,
                               err |-> Nil], order, 1)
        e4 == [e3 EXCEPT !.doc.Responses = rs.Responses,
                         !.responseSchemas = rs.responseSchemas]
        handler == IF e4.userDefinedFunc.kind # "nil"
                   THEN e4.userDefinedFunc
                   ELSE [kind |-> "func", name |-> "UserDefinedFunc"]
        wrapped == Compose(sp.middleware, Len(sp.middleware), handler)
    IN CASE ps.err.kind # "nil" -> [e |-> e2, sp |-> sp, err |-> ps.err]
         [] compiled.err.kind # "nil" ->
                [e |-> e3, sp |-> sp,
                 err |-> WithMessage(compiled.err, <<"failed to load dataSchema for endpoint: ">>
                                                     \o e3.doc.OperationId)]
         [] rs.err.kind # "nil" -> [e |-> e4, sp |-> sp, err |-> rs.err]
         [] OTHER ->
                [e |-> [e4 EXCEPT !.fullyWrappedFunc = wrapped],
                 sp |-> [sp EXCEPT !.paths = Put(@, <<e4.path, e4.method>>, e4.doc),
                                   !.routes = @ \cup {[method |-> e4.method, path |-> e4.path]}],
                 err |-> Nil]

-----------------------------------------------------------------------------
(* parseRequest *)

\* the texts strconv.Atoi accepts among those the requests carry, with their values
IntegerTexts == {0, 4, 10}
IsIntegerText(item) == \E n \in IntegerTexts : Itoa(n) = item
Atoi(item) ==
    IF IsIntegerText(item)
    THEN [val |-> JInteger(CHOOSE n \in IntegerTexts : Itoa(n) = item), err |-> Nil]
    ELSE [val |-> JInteger(0), err |-> NewError(<<"strconv.Atoi: parsing ", item, ": invalid syntax">>)]

\* strconv.ParseFloat(item, 64): the integer texts are floats too
ParseFloat(item) ==
    IF IsIntegerText(item)
    THEN [val |-> JInteger(CHOOSE n \in IntegerTexts : Itoa(n) = item), err |-> Nil]
    ELSE [val |-> JInteger(0), err |-> NewError(<<"strconv.ParseFloat: parsing ", item, ": invalid syntax">>)]

\* strconv.ParseBool
ParseBool(item) ==
    CASE item \in {"1", "t", "T", "TRUE", "true", "True"} -> [val |-> JBoolean(TRUE), err |-> Nil]
      [] item \in {"0", "f", "F", "FALSE", "false", "False"} -> [val |-> JBoolean(FALSE), err |-> Nil]
      [] OTHER -> [val |-> JBoolean(FALSE),
                   err |-> NewError(<<"strconv.ParseBool: parsing ", item, ": invalid syntax">>)]

convertParamType(param, item) ==
    CASE param.kind = "String" -> [val |-> JString(item), err |-> Nil]
      [] param.kind = "Int" -> Atoi(item)
      [] param.kind = "Float64" -> ParseFloat(item)
      [] param.kind = "Bool" -> ParseBool(item)
      [] OTHER -> [val |-> JNull,
                   err |-> NewError(<<"bad reflection type for converting parameter from string">>)]

\* NewData(w, r, e): the maps are empty, the body nil
NewData(req) ==
    [Req |-> req, Query |-> EmptyMap, Params |-> EmptyMap, Headers |-> EmptyMap, Body |-> Nil]

\* strings.Split(r.URL.Path, "/")
SplitPath(path) == <<"">> \o path

\* the progress of parseRequest: the data filled so far, the error it returns, whether
\* it panicked, and the steps taken so far in the order taken
ParseState(data) == [data |-> data, err |-> Nil, panic |-> FALSE, steps |-> <<>>]

Step(name, arg) == [step |-> name, arg |-> arg]

\* the body is read and closed when a body type is declared
ReadBody(e, st) ==
    IF e.bodyType.kind = "nil" THEN st
    ELSE
        LET st1 == [st EXCEPT !.steps = Append(@, Step("readBody", ""))]
        IN CASE st.data.Req.Body.io = "readError" ->
                    [st1 EXCEPT !.err = WithMessage(NewError(<<"unexpected EOF">>),
                                                    <<"failed to read request body">>)]
             [] st.data.Req.Body.io = "closeError" ->
                    [st1 EXCEPT !.err = WithMessage(NewError(<<"close failed">>),
                                                    <<"failed to close request body">>)]
             [] OTHER -> st1

\* ConvertList without the test for an empty text: every declared parameter is
\* converted and put into the map
RECURSIVE ConvertList_NoSkip(_, _, _, _, _, _)
ConvertList_NoSkip(list, raw, where, message, st, i) ==
    IF i > Len(list) THEN st
    ELSE
        LET c == convertParamType(list[i], raw[list[i].Name])
            st1 == [st EXCEPT !.data[where] = Put(@, list[i].Name, c.val),
                              !.steps = Append(@, Step("convert", list[i].Name))]
        IN IF c.err.kind # "nil"
           THEN [st1 EXCEPT !.err = WithMessage(c.err, <<message, list[i].Name>>)]
           ELSE ConvertList_NoSkip(list, raw, where, message, st1, i + 1)

\* the loop over e.query (where = "Query") or e.headers (where = "Headers"), from Go
\* index i - 1 on; raw gives the text of the request for each name ("" when absent)
RECURSIVE ConvertList(_, _, _, _, _, _)
ConvertList(list, raw, where, message, st, i) ==
    IF i > Len(list) THEN st
    ELSE
        LET param == list[i]
            name == param.Name
            item == raw[name]
        IN IF item = "" THEN ConvertList(list, raw, where, message, st, i + 1)
           ELSE
             LET c == convertParamType(param, item)
                 st1 == [st EXCEPT !.data[where] = Put(@, name, c.val),
                                   !.steps = Append(@, Step("convert", name))]
             IN IF c.err.kind # "nil"
                THEN [st1 EXCEPT !.err = WithMessage(c.err, <<message, name>>)]
                ELSE ConvertList(list, raw, where, message, st1, i + 1)

\* the loop over the map e.params, visiting its keys in the order given
RECURSIVE ConvertParams(_, _, _, _, _)
ConvertParams(e, basePathLength, order, st, i) ==
    IF i > Len(order) THEN st
    ELSE
        LET loc == order[i]
            param == e.params[loc]
            splitPath == SplitPath(st.data.Req.Path)
        IN IF Len(splitPath) <= loc THEN ConvertParams(e, basePathLength, order, st, i + 1)
           ELSE IF basePathLength + loc >= Len(splitPath)
           THEN [st EXCEPT !.panic = TRUE]   \* index out of range
           ELSE
             LET c == convertParamType(param, splitPath[basePathLength + loc + 1])
                 st1 == [st EXCEPT !.data.Params = Put(@, param.Name, c.val),
                                   !.steps = Append(@, Step("convert", param.Name))]
             IN IF c.err.kind # "nil"
                THEN [st1 EXCEPT !.err = WithMessage(c.err, <<"failed to convert path parameter ",
                                                             param.Name>>)]
                ELSE ConvertParams(e, basePathLength, order, st1, i + 1)

\* the document handed to the validator: the three maps and, when a body type is
\* declared, the raw bytes of the body
DataJson(e, data) ==
    LET maps == [Query |-> JObject(data.Query), Params |-> JObject(data.Params),
                 Headers |-> JObject(data.Headers)]
    IN IF e.bodyType.kind # "nil" THEN Put(maps, "Body", data.Req.Body) ELSE maps

\* e.dataSchema.Validate: the loader fails on bytes that are no JSON
ValidateData(e, st) ==
    IF e.dataSchema.kind = "nil" THEN st
    ELSE
        LET st1 == [st EXCEPT !.steps = Append(@, Step("validate", ""))]
            dataJson == DataJson(e, st.data)
        IN IF e.bodyType.kind # "nil" /\ ~st.data.Req.Body.valid
           THEN [st1 EXCEPT !.err = newMalformedJSONError(NewError(<<"invalid character">>))]
           ELSE
             LET doc == JObject([n \in DOMAIN dataJson |->
                                    IF n = "Body" THEN dataJson[n].json ELSE dataJson[n]])
                 violations == Violations(e.dataSchema, doc, <<"(root)">>)
             IN IF violations # {}
                THEN [st1 EXCEPT !.err = newJSONValidationError(violations)]
                ELSE st1

\* json.Unmarshal of a document into a value of the body type
Decodable(bodyType, doc) ==
    \/ doc.type = "null"
    \/ /\ doc.type = "object"
       /\ \A n \in (DOMAIN bodyType.fields) \cap (DOMAIN doc.fields) :
              doc.fields[n].type \in {"null", bodyType.fields[n]}

\* data.Body = reflect.New(e.bodyType).Interface(); json.Unmarshal(requestBody, data.Body)
UnmarshalBody(e, st) ==
    IF e.bodyType.kind = "nil" THEN st
    ELSE
        LET body == st.data.Req.Body
            st1 == [st EXCEPT !.steps = Append(@, Step("unmarshal", ""))]
        IN IF body.valid /\ Decodable(e.bodyType, body.json)
           THEN [st1 EXCEPT !.data.Body = [kind |-> "struct", type |-> e.bodyType.name,
                                           json |-> body.json]]
           ELSE [st1 EXCEPT !.data.Body = [kind |-> "struct", type |-> e.bodyType.name,
                                           json |-> JObject(EmptyMap)],
                            !.err = newMalformedJSONError(NewError(<<"cannot unmarshal">>))]

\* parseRequest has returned an error, or has panicked
Stopped(st) == st.err.kind # "nil" \/ st.panic

\* the stages of parseRequest after the body is read: each runs unless a stage before
\* it returned an error or panicked
QueryStage(e, st) ==
    IF Stopped(st) THEN st
    ELSE ConvertList(e.query, st.data.Req.Query, "Query",
                     "failed to convert query parameter ", st, 1)

\* PathStage that runs whatever the stages before it returned
PathStage_Always(e, sp, order, st) ==
    ConvertParams(e, sp.basePathLength + (IF e.version # 0 THEN 1 ELSE 0), order, st, 1)

\* PathStage that does not count the version prefix of the path
PathStage_NoVersion(e, sp, order, st) ==
    IF Stopped(st) THEN st
    ELSE ConvertParams(e, sp.basePathLength, order, st, 1)

PathStage(e, sp, order, st) ==
    IF Stopped(st) THEN st
    ELSE ConvertParams(e, sp.basePathLength + (IF e.version # 0 THEN 1 ELSE 0), order, st, 1)

HeaderStage(e, st) ==
    IF Stopped(st) THEN st
    ELSE ConvertList(e.headers, st.data.Req.Header, "Headers",
                     "failed to convert header parameter ", st, 1)

ValidateStage(e, st) == IF Stopped(st) THEN st ELSE ValidateData(e, st)

UnmarshalStage(e, st) == IF Stopped(st) THEN st ELSE UnmarshalBody(e, st)

\* parseRequest with the body deserialized before the schema validation
parseRequest_UnmarshalFirst(e, sp, data, order) ==
    ValidateStage(e,
        UnmarshalStage(e,
            HeaderStage(e,
                PathStage(e, sp, order,
                    QueryStage(e, ReadBody(e, ParseState(data)))))))

\* parseRequest(&data) of endpoint e of service sp; order is the order in which the
\* range over e.params visits its keys
parseRequest(e, sp, data, order) ==
    UnmarshalStage(e,
        ValidateStage(e,
            HeaderStage(e,
                PathStage(e, sp, order,
                    QueryStage(e, ReadBody(e, ParseState(data)))))))

-----------------------------------------------------------------------------
(* runUserDefinedFunc *)

\* The handler chain as it runs: every middleware passes the data on to next and
\* returns what next returns.  The events are the entries and exits in the order
\* they happen; fn is what the innermost function does (it returns or it panics),
\* and a panic unwinds the chain without any exit.
RECURSIVE Invoke(_, _)
Invoke(handler, fn) ==
    CASE handler.kind = "nil" ->
            [events |-> <<>>, panic |-> TRUE, value |-> "nil pointer dereference"]
      [] handler.kind = "wrapped" ->
            LET inner == Invoke(handler.next, fn)
                in == <<[ev |-> "enter", of |-> handler.by]>> \o inner.events
            IN IF inner.panic THEN [inner EXCEPT !.events = in]
               ELSE [inner EXCEPT !.events = Append(in, [ev |-> "exit", of |-> handler.by])]
      [] handler.name = "UserDefinedFunc" ->
            [events |-> <<[ev |-> "call", of |-> handler.name]>>, panic |-> FALSE,
             output |-> Nil,
             err |-> NewError(<<"endpoint function is not defined for: ">>),
             writes |-> <<>>]
      [] fn.kind = "panic" ->
            [events |-> <<[ev |-> "call", of |-> handler.name]>>, panic |-> TRUE,
             value |-> fn.value]
      [] OTHER ->
            [events |-> <<[ev |-> "call", of |-> handler.name]>>, panic |-> FALSE,
             output |-> fn.output, err |-> fn.err, writes |-> fn.writes]

\* runUserDefinedFunc without the deferred recover: the panic leaves it
runUserDefinedFunc_NoRecover(e, fn) ==
    LET r == Invoke(e.fullyWrappedFunc, fn)
    IN IF r.panic
       THEN [res |-> Nil, err |-> Nil, log |-> <<>>,
             events |-> r.events, writes |-> <<>>, panicked |-> TRUE]
       ELSE [res |-> r.output, err |-> r.err, log |-> <<>>,
             events |-> r.events, writes |-> r.writes, panicked |-> FALSE]

\* runUserDefinedFunc(data): the deferred function recovers a panic, sets the error
\* and prints one line to the log
runUserDefinedFunc(e, fn) ==
    LET r == Invoke(e.fullyWrappedFunc, fn)
    IN IF r.panic
       THEN [res |-> Nil,
             err |-> NewError(<<"a fatal error occurred: ", r.value>>),
             log |-> <<[line |-> "endpoint panic", method |-> e.method, path |-> e.path,
                        value |-> r.value]>>,
             events |-> r.events, writes |-> <<>>, panicked |-> FALSE]
       ELSE [res |-> r.output, err |-> r.err, log |-> <<>>,
             events |-> r.events, writes |-> r.writes, panicked |-> FALSE]

-----------------------------------------------------------------------------
(* Call *)

\* json.Marshal of a Go value: the document, or an error
Marshal(body) ==
    CASE body.kind = "nil" -> [doc |-> JNull, err |-> Nil]
      [] body.kind = "struct" -> [doc |-> body.json, err |-> Nil]
      [] body.kind = "jsonValidationError" ->
            [doc |-> JObject([type |-> JString(body.Type),
                              errors |-> JArray(Cardinality(body.Errors))]),
             err |-> Nil]
      [] body.kind = "malformedJSONError" -> [doc |-> JString(body.text), err |-> Nil]
      [] body.kind = "RawMessage" ->
            [doc |-> JObject([message |-> JString(body.message),
                              details |-> JString(body.details.quoted)]),
             err |-> Nil]
      [] OTHER -> [doc |-> JNull, err |-> NewError(<<"json: unsupported type: ", body.kind>>)]

\* ErrorResponse with the test for malformedJSONError left out
ErrorResponse_NoMalformed(err) ==
    CASE err.kind = "jsonValidationError" ->
            [ZeroResponse EXCEPT !.Body = err, !.Status = StatusBadRequest]
      [] OTHER ->
            [ZeroResponse EXCEPT !.Body = errorToJSON(err), !.Status = StatusInternalServerError]

\* the response of Call for an error of parseRequest or of the handler
ErrorResponse(err) ==
    CASE err.kind = "jsonValidationError" ->
            [ZeroResponse EXCEPT !.Body = err, !.Status = StatusBadRequest]
      [] err.kind = "malformedJSONError" ->
            [ZeroResponse EXCEPT !.Body = err, !.Status = StatusBadRequest]
      [] OTHER ->
            [ZeroResponse EXCEPT !.Body = errorToJSON(err), !.Status = StatusInternalServerError]

\* Call without the validation of the response
ValidateResponse_Skipped(e, res) == <<>>

\* the validation of the response body against the schema of its status: the lines
\* appended to errs
ValidateResponse(e, res) ==
    IF res.Status \notin DOMAIN e.responseSchemas THEN <<>>
    ELSE
        LET m == Marshal(res.Body)
        IN IF m.err.kind # "nil"
           THEN <<<<"response body contains malformed json">> \o ErrorText(m.err)>>
           ELSE IF Violations(e.responseSchemas[res.Status], m.doc, <<"(root)">>) # {}
           THEN <<<<"response body failed validation for status ", Itoa(res.Status),
                    "JSONValidationError:">>>>
           ELSE <<>>

\* Resolve without the early return for Response.Ignore
Resolve_NoIgnore(e, c) ==
    LET isResponse == c.err.kind = "nil" /\ c.output.kind = "Response"
        res == CASE c.err.kind # "nil" -> ErrorResponse(c.err)
                 [] isResponse -> c.output
                 [] OTHER -> [ZeroResponse EXCEPT !.Body = c.output]
        res1 == IF res.Status = 0 THEN [res EXCEPT !.Status = StatusOK] ELSE res
    IN [c EXCEPT !.res = res1,
                 !.errs = @ \o ValidateResponse(e, res1),
                 !.pc = "write"]

\* Resolve with a failed validation of the response turned into a 500 response
Resolve_MismatchIs500(e, c) ==
    LET isResponse == c.err.kind = "nil" /\ c.output.kind = "Response"
        res == CASE c.err.kind # "nil" -> ErrorResponse(c.err)
                 [] isResponse -> c.output
                 [] OTHER -> [ZeroResponse EXCEPT !.Body = c.output]
        res1 == IF res.Status = 0 THEN [res EXCEPT !.Status = StatusOK] ELSE res
    IN IF isResponse /\ c.output.Ignore
       THEN [c EXCEPT !.pc = "done"]
       ELSE IF ValidateResponse(e, res1) # <<>>
       THEN [c EXCEPT !.res = ErrorResponse(NewError(Head(ValidateResponse(e, res1)))),
                      !.errs = @ \o ValidateResponse(e, res1),
                      !.pc = "write"]
       ELSE [c EXCEPT !.res = res1, !.pc = "write"]

\* Resolve without the default of 200 for a status of 0
Resolve_NoDefault(e, c) ==
    LET isResponse == c.err.kind = "nil" /\ c.output.kind = "Response"
        res == CASE c.err.kind # "nil" -> ErrorResponse(c.err)
                 [] isResponse -> c.output
                 [] OTHER -> [ZeroResponse EXCEPT !.Body = c.output]
    IN IF isResponse /\ c.output.Ignore
       THEN [c EXCEPT !.pc = "done"]
       ELSE [c EXCEPT !.res = res,
                      !.errs = @ \o ValidateResponse(e, res),
                      !.pc = "write"]

\* Call from the error check to the validation of the response: c is the Call after
\* parseRequest and runUserDefinedFunc, with err and output set
Resolve(e, c) ==
    LET isResponse == c.err.kind = "nil" /\ c.output.kind = "Response"
        res == CASE c.err.kind # "nil" -> ErrorResponse(c.err)
                 [] isResponse -> c.output
                 [] OTHER -> [ZeroResponse EXCEPT !.Body = c.output]
        res1 == IF res.Status = 0 THEN [res EXCEPT !.Status = StatusOK] ELSE res
    IN IF isResponse /\ c.output.Ignore
       THEN [c EXCEPT !.pc = "done"]
       ELSE [c EXCEPT !.res = res1,
                      !.errs = @ \o ValidateResponse(e, res1),
                      !.pc = "write"]

\* the bytes of json.Marshal and of json.MarshalIndent(body, "", strings.Repeat(" ", n))
Compact(doc) == [doc |-> doc, newlines |-> FALSE, indent |-> 0]
Indented(doc, n) == [doc |-> doc, newlines |-> TRUE, indent |-> n]
Raw(message) == [doc |-> Marshal(message).doc, newlines |-> FALSE, indent |-> 0]

WriteHeader(status) == [by |-> "Call", op |-> "WriteHeader", status |-> status, bytes |-> Compact(JNull)]
Write(bytes) == [by |-> "Call", op |-> "Write", status |-> 0, bytes |-> bytes]

\* WriteResponse that keeps the status of the response when json.Marshal fails
WriteResponse_KeepStatus(sp, c, header, writeOk) ==
    IF c.res.Body.kind = "nil"
    THEN [c EXCEPT !.w = Append(@, WriteHeader(c.res.Status)), !.pc = "report"]
    ELSE
        LET m == Marshal(c.res.Body)
            failed == m.err.kind # "nil"
            bytes == IF failed THEN Raw(errorToJSON(m.err)) ELSE Compact(m.doc)
        IN [c EXCEPT !.errs = IF failed
                              THEN Append(@, <<"failed to marshal body ">> \o ErrorText(m.err))
                              ELSE @,
                     !.err = Nil,
                     !.w = @ \o <<WriteHeader(c.res.Status), Write(bytes)>>,
                     !.pc = "report"]

\* WriteResponse without the nil check: a nil body is serialized and written as null
WriteResponse_NoNilCheck(sp, c, header, writeOk) ==
    LET m == Marshal(c.res.Body)
        failed == m.err.kind # "nil"
        status == IF failed THEN StatusInternalServerError ELSE c.res.Status
        bytes == IF failed THEN Raw(errorToJSON(m.err)) ELSE Compact(m.doc)
    IN [c EXCEPT !.res.Status = status,
                 !.errs = IF failed
                          THEN Append(@, <<"failed to marshal body ">> \o ErrorText(m.err))
                          ELSE @,
                 !.err = Nil,
                 !.w = @ \o <<WriteHeader(status), Write(bytes)>>,
                 !.pc = "report"]

\* WriteResponse with the indent the service was constructed with
WriteResponse_ConstructedIndent(sp, c, header, writeOk) ==
    IF c.res.Body.kind = "nil"
    THEN [c EXCEPT !.w = Append(@, WriteHeader(c.res.Status)), !.pc = "report"]
    ELSE
        LET m == Marshal(c.res.Body)
            parsed == Atoi(header)
            indent == IF header # "" /\ parsed.err.kind = "nil" THEN parsed.val.val
                      ELSE DefaultJSONIndent
            b == IF indent > 0 THEN Indented(m.doc, DefaultJSONIndent) ELSE Compact(m.doc)
            failed == m.err.kind # "nil"
            status == IF failed THEN StatusInternalServerError ELSE c.res.Status
            bytes == IF failed THEN Raw(errorToJSON(m.err)) ELSE b
        IN [c EXCEPT !.res.Status = status,
                     !.err = IF writeOk THEN Nil ELSE NewError(<<"write failed">>),
                     !.w = @ \o <<WriteHeader(status), Write(bytes)>>,
                     !.pc = "report"]

\* WriteResponse that writes the status before it serializes the body, and once
\* more when serialization fails
WriteResponse_EarlyStatus(sp, c, header, writeOk) ==
    IF c.res.Body.kind = "nil"
    THEN [c EXCEPT !.w = Append(@, WriteHeader(c.res.Status)), !.pc = "report"]
    ELSE
        LET m == Marshal(c.res.Body)
            failed == m.err.kind # "nil"
            status == IF failed THEN StatusInternalServerError ELSE c.res.Status
            bytes == IF failed THEN Raw(errorToJSON(m.err))
                     ELSE IF sp.jsonIndent > 0 THEN Indented(m.doc, sp.jsonIndent)
                     ELSE Compact(m.doc)
            again == IF failed THEN <<WriteHeader(status)>> ELSE <<>>
        IN [c EXCEPT !.res.Status = status,
                     !.err = IF writeOk THEN Nil ELSE NewError(<<"write failed">>),
                     !.w = @ \o <<WriteHeader(c.res.Status)>> \o again \o <<Write(bytes)>>,
                     !.pc = "report"]

\* Call from the nil check of the body to the write: header is the text of the
\* Oas-Json-Indent header of the request, writeOk whether w.Write succeeds
WriteResponse(sp, c, header, writeOk) ==
    IF c.res.Body.kind = "nil"
    THEN [c EXCEPT !.w = Append(@, WriteHeader(c.res.Status)), !.pc = "report"]
    ELSE
        LET parsed == Atoi(header)
            badHeader == header # "" /\ parsed.err.kind # "nil"
            indent == IF header # "" /\ parsed.err.kind = "nil" THEN parsed.val.val
                      ELSE sp.jsonIndent
            errs1 == IF badHeader
                     THEN Append(c.errs, <<"Expected header to be an integer or empty, found ",
                                           header>> \o ErrorText(parsed.err))
                     ELSE c.errs
            m == Marshal(c.res.Body)
            b == IF indent > 0 THEN Indented(m.doc, sp.jsonIndent) ELSE Compact(m.doc)
            failed == m.err.kind # "nil"
            errs2 == IF failed
                     THEN Append(errs1, <<"failed to marshal body ">> \o ErrorText(m.err))
                     ELSE errs1
            status == IF failed THEN StatusInternalServerError ELSE c.res.Status
            bytes == IF failed THEN Raw(errorToJSON(m.err)) ELSE b
            errs3 == IF writeOk THEN errs2
                     ELSE Append(errs2, <<"error occurred while writing the response body",
                                          "write failed">>)
        IN [c EXCEPT !.res.Status = status,
                     !.errs = errs3,
                     !.err = IF writeOk THEN Nil ELSE NewError(<<"write failed">>),
                     !.w = @ \o <<WriteHeader(status), Write(bytes)>>,
                     !.pc = "report"]

\* strings.Join(errs, "\n  ")
RECURSIVE Join(_)
Join(errs) == IF errs = <<>> THEN <<>> ELSE Head(errs) \o Join(Tail(errs))

\* the end of Call: the hook of the service, or one line of the log
Report(e, sp, c) ==
    LET err == IF Len(c.errs) > 0 THEN NewError(Join(c.errs)) ELSE c.err
    IN IF sp.responseAndErrorHandler.kind # "nil"
       THEN [c EXCEPT !.err = err,
                      !.hooked = Append(@, [data |-> c.data, res |-> c.res, err |-> err]),
                      !.pc = "done"]
       ELSE [c EXCEPT !.err = err,
                      !.log = Append(@, [line |-> "endpoint error", id |-> e.doc.OperationId,
                                         err |-> err]),
                      !.pc = "done"]

-----------------------------------------------------------------------------
(* The service object *)

\* NewOpenAPI: the server URL is kept in the document, the indent is 2, no hook is
\* registered, and basePathLength counts the non-empty segments of the path of the
\* server URL
NewOpenAPI(serverUrlPath, middleware) ==
    LET split == <<"">> \o serverUrlPath
    IN [servers |-> serverUrlPath,
        jsonIndent |-> DefaultJSONIndent,
        responseAndErrorHandler |-> Nil,
        middleware |-> middleware,
        basePathLength |-> Cardinality({i \in 1..Len(split) : split[i] # ""}),
        endpoints |-> {},
        paths |-> EmptyMap,
        routes |-> {}]

-----------------------------------------------------------------------------
(* Inputs: the services, the declaration programs, the requests, the handlers *)

\* the paths of the server URL, as their segments after the first "/": none,
\* "/api" and "/api/"
ServerUrlPaths == {<<>>, <<"api">>, <<"api", "">>}

\* the middleware a service is constructed with: the first k of these, in this order
MiddlewareNames == <<"m0", "m1", "m2", "m3">>
Middlewares == {SubSeq(MiddlewareNames, 1, k) : k \in 0..MaxMiddleware}

Indents == {0, DefaultJSONIndent, 4}
Hook == [kind |-> "func", name |-> "hook"]
UserFunc == [kind |-> "func", name |-> "f"]

DeclareParameter(in, name, required, schema, kind) ==
    [op |-> "Parameter", in |-> in, name |-> name, required |-> required,
     schema |-> schema, kind |-> kind]
DeclareResponse(code, schema) == [op |-> "Response", code |-> code, schema |-> schema]

TitledSchema == Schema("object", {"title"}, EmptyMap)
ItemType == [kind |-> "type", name |-> "Item", fields |-> [title |-> "string"]]

\* GET /search?q=...&limit=...
SearchProgram ==
    [operationId |-> "search", earlier |-> {}, method |-> "get", path |-> <<Literal("search")>>,
     calls |-> <<DeclareParameter(InQuery, "q", TRUE, TypeSchema("string"), "String"),
                 DeclareParameter(InQuery, "limit", FALSE, TypeSchema("integer"), "Int"),
                 DeclareResponse(200, Ref("SearchResults")),
                 DeclareResponse(204, Nil)>>]

\* GET /v1/items/{id}?page=... with a required header
ItemProgram ==
    [operationId |-> "getItem", earlier |-> {}, method |-> "get",
     path |-> <<Literal("items"), Placeholder("id")>>,
     calls |-> <<[op |-> "Version", version |-> 1],
                 DeclareParameter(InPath, "id", TRUE, TypeSchema("integer"), "Int"),
                 DeclareParameter(InQuery, "page", FALSE, TypeSchema("integer"), "Int"),
                 DeclareParameter(InHeader, "X-Dry-Run", TRUE, TypeSchema("boolean"), "Bool"),
                 DeclareResponse(200, TitledSchema)>>]

\* POST /items with a required body
CreateProgram ==
    [operationId |-> "createItem", earlier |-> {}, method |-> "post",
     path |-> <<Literal("items")>>,
     calls |-> <<[op |-> "RequestBody", required |-> TRUE, schema |-> TitledSchema,
                  object |-> ItemType],
                 DeclareParameter(InQuery, "limit", TRUE, TypeSchema("integer"), "Int"),
                 DeclareResponse(200, TitledSchema),
                 DeclareResponse(500, TitledSchema)>>]

\* GET /reports, declared with a path parameter that the template does not hold
ReportProgram ==
    [operationId |-> "getReport", earlier |-> {}, method |-> "get",
     path |-> <<Literal("reports")>>,
     calls |-> <<DeclareParameter(InPath, "id", TRUE, TypeSchema("integer"), "Int"),
                 DeclareResponse(200, Nil)>>]

\* GET /ping, created on a service on which NewEndpoint was called before with the
\* operation id "ping"
PingProgram ==
    [operationId |-> "ping", earlier |-> {"ping"}, method |-> "get",
     path |-> <<Literal("ping")>>,
     calls |-> <<DeclareResponse(204, Nil)>>]

\* PUT /notes with a request body that is not required
NoteProgram ==
    [operationId |-> "putNote", earlier |-> {}, method |-> "put",
     path |-> <<Literal("notes")>>,
     calls |-> <<[op |-> "RequestBody", required |-> FALSE, schema |-> TitledSchema,
                  object |-> ItemType],
                 DeclareResponse(200, Nil)>>]

\* GET /status, whose declaration calls Version three times
StatusProgram ==
    [operationId |-> "status", earlier |-> {}, method |-> "get",
     path |-> <<Literal("status")>>,
     calls |-> <<[op |-> "Version", version |-> 0],
                 [op |-> "Version", version |-> 2],
                 [op |-> "Version", version |-> 3],
                 DeclareResponse(204, Nil)>>]

\* GET /session, declared with a parameter in a location Define does not know
CookieProgram ==
    [operationId |-> "session", earlier |-> {}, method |-> "get",
     path |-> <<Literal("session")>>,
     calls |-> <<DeclareParameter("cookie", "sid", TRUE, TypeSchema("string"), "String"),
                 DeclareResponse(200, TitledSchema)>>]

\* GET /orders, whose query parameter refers to a schema file that does not exist
OrdersProgram ==
    [operationId |-> "orders", earlier |-> {}, method |-> "get",
     path |-> <<Literal("orders")>>,
     calls |-> <<DeclareParameter(InQuery, "filter", FALSE, Ref("Missing"), "String"),
                 DeclareResponse(200, TitledSchema)>>]

\* GET /invoices, whose response refers to a schema file that does not exist
InvoicesProgram ==
    [operationId |-> "invoices", earlier |-> {}, method |-> "get",
     path |-> <<Literal("invoices")>>,
     calls |-> <<DeclareParameter(InQuery, "q", TRUE, TypeSchema("string"), "String"),
                 DeclareResponse(200, Ref("Missing"))>>]

Programs ==
    {SearchProgram, ItemProgram, CreateProgram, ReportProgram, PingProgram,
     NoteProgram, StatusProgram, CookieProgram, OrdersProgram, InvoicesProgram}

\* the texts a request carries for a parameter; "" is an absent parameter
RawValues == {"", "10", "abc", "true"}

RequestPaths ==
    {<<"items">>, <<"items", "10">>, <<"v1", "items", "10">>, <<"v1", "items", "abc">>,
     <<"api", "v1", "items">>, <<"api", "v1", "items", "10">>, <<"api", "v1", "items", "abc">>}

BodyOf(io, valid, json) == [io |-> io, valid |-> valid, json |-> json]
NoBody == BodyOf("ok", FALSE, JNull)
RequestBodies ==
    {BodyOf("ok", TRUE, JObject([title |-> JString("a")])),   \* {"title":"a"}
     BodyOf("ok", TRUE, JObject(EmptyMap)),                   \* {}
     BodyOf("ok", TRUE, JObject([title |-> JInteger(10)])),   \* {"title":10}
     BodyOf("ok", FALSE, JNull),                              \* {"title":
     BodyOf("readError", FALSE, JNull),
     BodyOf("closeError", TRUE, JObject([title |-> JString("a")]))}

Names(list) == {list[i].Name : i \in 1..Len(list)}

\* the requests to endpoint e that differ in what parseRequest reads
Requests(e) ==
    {[Query |-> q, Header |-> h, Path |-> p, Body |-> b] :
        q \in [Names(e.query) -> RawValues],
        h \in [Names(e.headers) -> RawValues],
        p \in IF DOMAIN e.params = {} THEN {<<>>} ELSE RequestPaths,
        b \in IF e.bodyType.kind = "nil" THEN {NoBody} ELSE RequestBodies}

NoRequest == [Query |-> EmptyMap, Header |-> EmptyMap, Path |-> <<>>, Body |-> NoBody]

\* the texts of the Oas-Json-Indent header
IndentHeaders == {"", "0", "4", "abc"}

\* the orders in which a range over a map with key set S may visit the keys
Orders(S) == {o \in [1..Cardinality(S) -> S] : \A x \in S : \E i \in DOMAIN o : o[i] = x}

Titled == [kind |-> "struct", type |-> "Result", json |-> JObject([title |-> JString("a")])]
Untitled == [kind |-> "struct", type |-> "Result", json |-> JObject(EmptyMap)]
Chan == [kind |-> "chan"]

Resp(ignore, status, body, headers) ==
    [kind |-> "Response", Ignore |-> ignore, Status |-> status, Body |-> body,
     Headers |-> headers]

Returns(output, err, writes) ==
    [kind |-> "return", output |-> output, err |-> err, writes |-> writes, value |-> ""]
Panics(value) ==
    [kind |-> "panic", output |-> Nil, err |-> Nil, writes |-> <<>>, value |-> value]
NoOutcome == [kind |-> "none", output |-> Nil, err |-> Nil, writes |-> <<>>, value |-> ""]

\* what a handler that answers on data.ResWriter itself writes
HandlerWrites ==
    <<[by |-> "handler", op |-> "WriteHeader", status |-> 204, bytes |-> Compact(JNull)]>>

DbError == NewError(<<"database is down">>)

\* what the user's function does in one invocation
HandlerOutcomes ==
    {Returns(Resp(FALSE, s, b, EmptyMap), Nil, <<>>) :
        s \in {0, 200, 404}, b \in {Nil, Titled, Untitled, Chan}}
    \cup {Returns(Resp(FALSE, 200, Titled, [Location |-> "/items/10"]), Nil, <<>>),
          Returns(Resp(TRUE, 0, Nil, EmptyMap), Nil, HandlerWrites),
          Returns(Resp(TRUE, 200, Titled, EmptyMap), Nil, HandlerWrites),
          Returns(Titled, Nil, <<>>),
          Returns(Untitled, Nil, <<>>),
          Returns(Chan, Nil, <<>>),
          Returns(Nil, Nil, <<>>),
          Returns(Nil, DbError, <<>>),
          Returns(Resp(TRUE, 200, Titled, EmptyMap), DbError, <<>>),
          Panics("boom")}

-----------------------------------------------------------------------------
(* The state machine *)

\* The locals of Call (data, output, err, res, errs), its place (pc), and what it did:
\* parseErr and failure are err after parseRequest and after runUserDefinedFunc,
\* steps the steps of parseRequest, events those of the handler chain, fn what the
\* user's function did, header the Oas-Json-Indent text read, w the calls on the
\* response writer, log the lines printed, hooked the calls of the hook.
IdleCall ==
    [pc |-> "idle", data |-> NewData(NoRequest), fn |-> NoOutcome, output |-> Nil,
     err |-> Nil, parseErr |-> Nil, failure |-> Nil, res |-> ZeroResponse, errs |-> <<>>, steps |-> <<>>, events |-> <<>>,
     header |-> "", w |-> <<>>, log |-> <<>>, hooked |-> <<>>]

Init ==
    /\ \E serverUrlPath \in ServerUrlPaths, middleware \in Middlewares :
            spec = NewOpenAPI(serverUrlPath, middleware)
    /\ \E program \in Programs :
            setup = [program |-> program, pc |-> "new", pos |-> 0, err |-> Nil,
                     later |-> FALSE]
    /\ ep = Nil
    /\ call = IdleCall
    /\ other = IdleCall

\* Call that keeps count in the path index map: the receiver is written by every request
Materialize_CachesPath(e, sp, c, req, order) ==
    LET st == parseRequest(e, sp, NewData(req), order)
    IN [e |-> [e EXCEPT !.parsedPath = [n \in DOMAIN @ |-> @[n] + 1]],
        c |-> [c EXCEPT !.data = st.data,
                        !.err = st.err,
                        !.parseErr = st.err,
                        !.failure = st.err,
                        !.steps = st.steps,
                        !.pc = CASE st.panic -> "panicked"
                                 [] st.err.kind = "nil" -> "run"
                                 [] OTHER -> "resolve"]]

\* Call up to the handler: NewData and parseRequest fill the locals data and err of
\* the Call c.  e is the receiver as they leave it: neither assigns to a field of it.
Materialize(e, sp, c, req, order) ==
    LET st == parseRequest(e, sp, NewData(req), order)
    IN [e |-> e,
        c |-> [c EXCEPT !.data = st.data,
                        !.err = st.err,
                        !.parseErr = st.err,
                        !.failure = st.err,
                        !.steps = st.steps,
                        !.pc = CASE st.panic -> "panicked"
                                 [] st.err.kind = "nil" -> "run"
                                 [] OTHER -> "resolve"]]

\* Call: runUserDefinedFunc, where the user's function does fn
Dispatch(e, c, fn) ==
    LET r == runUserDefinedFunc(e, fn)
    IN [c EXCEPT !.fn = fn,
                 !.output = r.res,
                 !.err = r.err,
                 !.failure = r.err,
                 !.events = r.events,
                 !.log = @ \o r.log,
                 !.w = @ \o r.writes,
                 !.pc = IF r.panicked THEN "panicked" ELSE "resolve"]

\* spec.NewEndpoint for an endpoint created before the one followed here
CreateEarlierEndpoint ==
    /\ setup.pc = "new"
    /\ \E id \in setup.program.earlier \ spec.endpoints :
            spec' = RegisterEndpoint(spec, NewEndpoint(id, "get", <<Literal(id)>>)).sp
    /\ UNCHANGED <<setup, ep, call, other>>

\* spec.NewEndpoint(operationId, method, path, ...)
CreateEndpoint ==
    /\ setup.pc = "new"
    /\ setup.program.earlier \subseteq spec.endpoints
    /\ LET r == RegisterEndpoint(spec, NewEndpoint(setup.program.operationId,
                                                   setup.program.method, setup.program.path))
       IN ep' = r.e /\ spec' = r.sp
    /\ setup' = [setup EXCEPT !.pc = "declare"]
    /\ UNCHANGED <<call, other>>

\* the next call of the declaration program: Version, Parameter, RequestBody or Response
Declare ==
    /\ setup.pc = "declare"
    /\ setup.pos < Len(setup.program.calls)
    /\ ep' = ApplyDeclaration(ep, setup.program.calls[setup.pos + 1])
    /\ setup' = [setup EXCEPT !.pos = @ + 1]
    /\ UNCHANGED <<spec, call, other>>

\* Define(f): the last call of the declaration, or a call made once more on the
\* endpoint that is defined, before any request
DefineEndpoint ==
    /\ \/ setup.pc = "declare" /\ setup.pos = Len(setup.program.calls)
       \/ setup.pc = "defined" /\ call.pc = "idle" /\ other.pc = "idle"
    /\ \E order \in Orders(DOMAIN ep.doc.Responses) :
          LET r == Define(ep, spec, UserFunc, order)
          IN /\ ep' = r.e
             /\ spec' = r.sp
             /\ setup' = [setup EXCEPT !.pc = CASE setup.pc = "defined" -> "redefined"
                                                [] r.err.kind = "nil" -> "defined"
                                                [] OTHER -> "failed",
                                       !.err = r.err]
    /\ UNCHANGED <<call, other>>

SetDefaultJSONIndent ==
    /\ call.pc = "idle"
    /\ \E i \in Indents : spec' = [spec EXCEPT !.jsonIndent = i]
    /\ setup' = [setup EXCEPT !.later = @ \/ setup.pc = "defined"]
    /\ UNCHANGED <<ep, call, other>>

SetResponseAndErrorHandler ==
    /\ call.pc = "idle"
    /\ \E reh \in {Nil, Hook} : spec' = [spec EXCEPT !.responseAndErrorHandler = reh]
    /\ setup' = [setup EXCEPT !.later = @ \/ setup.pc = "defined"]
    /\ UNCHANGED <<ep, call, other>>

\* Call: NewData and parseRequest.  A panic of parseRequest leaves Call at once.
CallParse ==
    /\ setup.pc = "defined"
    /\ call.pc = "idle"
    /\ \E req \in Requests(ep), order \in Orders(DOMAIN ep.params) :
          LET r == Materialize(ep, spec, call, req, order)
          IN ep' = r.e /\ call' = r.c
    /\ UNCHANGED <<spec, setup, other>>

\* Call: runUserDefinedFunc, when parseRequest returned no error
CallRun ==
    /\ call.pc = "run"
    /\ \E fn \in HandlerOutcomes : call' = Dispatch(ep, call, fn)
    /\ UNCHANGED <<spec, setup, ep, other>>

\* Call: the response is resolved and validated against the schema of its status
CallResolve ==
    /\ call.pc = "resolve"
    /\ call' = Resolve(ep, call)
    /\ UNCHANGED <<spec, setup, ep, other>>

\* Call: the status and the body are written
CallWrite ==
    /\ call.pc = "write"
    /\ \E header \in IndentHeaders, writeOk \in BOOLEAN :
          call' = [WriteResponse(spec, call, header, writeOk) EXCEPT !.header = header]
    /\ UNCHANGED <<spec, setup, ep, other>>

\* Call: the hook or the log
CallReport ==
    /\ call.pc = "report"
    /\ call' = Report(ep, spec, call)
    /\ UNCHANGED <<spec, setup, ep, other>>

\* Call has returned, or its panic has left it: the next request may come
CallReturn ==
    /\ call.pc \in {"done", "panicked"}
    /\ call' = IdleCall
    /\ UNCHANGED <<spec, setup, ep, other>>

Next ==
    \/ CreateEarlierEndpoint
    \/ CreateEndpoint
    \/ Declare
    \/ DefineEndpoint
    \/ SetDefaultJSONIndent
    \/ SetResponseAndErrorHandler
    \/ CallParse
    \/ CallRun
    \/ CallResolve
    \/ CallWrite
    \/ CallReport
    \/ CallReturn

Spec == Init /\ [][Next]_vars

\* The requests and handler outcomes of the Calls that run at the same time: one
\* accepted and one rejected request, and one outcome of each kind.
ConcurrentRequests(e) ==
    {req \in Requests(e) :
        /\ \A n \in DOMAIN req.Query : req.Query[n] = "10"
        /\ \A n \in DOMAIN req.Header : req.Header[n] \in {"true", "abc"}
        /\ req.Path \in {<<>>, <<"v1", "items", "10">>, <<"api", "v1", "items", "10">>}
        /\ req.Body \in {NoBody, BodyOf("ok", TRUE, JObject([title |-> JString("a")]))}}

ConcurrentOutcomes ==
    {Returns(Resp(FALSE, 200, Titled, EmptyMap), Nil, <<>>),
     Returns(Nil, DbError, <<>>),
     Panics("boom")}

\* One step of the Call c on its goroutine: the receiver e and the locals after it.
\* http.Server runs every request on a goroutine of its own, so the steps of two
\* Calls interleave freely.
CallSteps(e, sp, c) ==
    CASE c.pc = "idle" ->
            {Materialize(e, sp, c, req, order) :
                req \in ConcurrentRequests(e), order \in Orders(DOMAIN e.params)}
      [] c.pc = "run" -> {[e |-> e, c |-> Dispatch(e, c, fn)] : fn \in ConcurrentOutcomes}
      [] c.pc = "resolve" -> {[e |-> e, c |-> Resolve(e, c)]}
      [] c.pc = "write" -> {[e |-> e, c |-> WriteResponse(sp, c, "", TRUE)]}
      [] c.pc = "report" -> {[e |-> e, c |-> Report(e, sp, c)]}
      [] OTHER -> {[e |-> e, c |-> IdleCall]}

\* a step of the first of two concurrent Calls
FirstCall ==
    /\ setup.pc = "defined"
    /\ \E r \in CallSteps(ep, spec, call) : ep' = r.e /\ call' = r.c
    /\ UNCHANGED <<spec, setup, other>>

\* a step of the second of two concurrent Calls
SecondCall ==
    /\ setup.pc = "defined"
    /\ \E r \in CallSteps(ep, spec, other) : ep' = r.e /\ other' = r.c
    /\ UNCHANGED <<spec, setup, call>>

NextConcurrent ==
    \/ CreateEarlierEndpoint
    \/ CreateEndpoint
    \/ Declare
    \/ DefineEndpoint
    \/ FirstCall
    \/ SecondCall

\* the service under two requests at a time
SpecConcurrent == Init /\ [][NextConcurrent]_vars

-----------------------------------------------------------------------------
(* Properties of Call *)

\* the calls Call itself made on the response writer, in the order made
CallWrites == SelectSeq(call.w, LAMBDA x : x.by = "Call")

\* Call has written its response
Responded == call.pc \in {"report", "done"}

\* the 500 envelope for an error, as the document a client reads
Envelope(err) ==
    JObject([message |-> JString("Internal Server Error"), details |-> JString(ErrorText(err))])

\* C1: when parseRequest or the handler returned an error, the response is chosen by
\* the kind of the error: a validation error and a malformed-JSON error are answered
\* with status 400 and the error itself as the body, every other error with status
\* 500 and the envelope {"message":"Internal Server Error","details":<quoted text>}.
C1_ErrorClassification ==
    (call.failure.kind # "nil" /\ call.pc \in {"write", "report", "done"}) =>
        LET request == call.failure.kind \in {"jsonValidationError", "malformedJSONError"}
            status == IF request THEN 400 ELSE 500
        IN /\ call.res.Status = status
           /\ request => call.res.Body = call.failure
           /\ ~request => /\ call.res.Body.message = "Internal Server Error"
                          /\ call.res.Body.details = Quote(ErrorText(call.failure))
           /\ Responded =>
                /\ Len(CallWrites) = 2
                /\ CallWrites[1].op = "WriteHeader" /\ CallWrites[1].status = status
                /\ CallWrites[2].op = "Write"
                /\ ~request => CallWrites[2].bytes.doc = Envelope(call.failure)
                /\ call.failure.kind = "malformedJSONError" =>
                        CallWrites[2].bytes.doc = JString(call.failure.text)
                /\ call.failure.kind = "jsonValidationError" =>
                        CallWrites[2].bytes.doc.fields.type = JString("JSONValidationError")

\* a request with a body that is no JSON has been answered with 400
C1_Witness ==
    /\ call.pc = "done"
    /\ call.failure.kind = "malformedJSONError"
    /\ CallWrites[1].status = 400
    /\ CallWrites[2].bytes.doc = JString(call.failure.text)

\* parseRequest stopped at a parameter whose text it could not convert
ConversionFailed ==
    /\ call.parseErr.kind # "nil"
    /\ Len(call.steps) > 0
    /\ call.steps[Len(call.steps)].step = "convert"

\* C2: a parameter whose raw text cannot be converted to its declared type is
\* answered with status 400 and a parameter-type error that names the parameter,
\* never with status 500.
C2_ParameterTypeError ==
    (ConversionFailed /\ Responded) =>
        /\ CallWrites[1].status = 400
        /\ call.res.Body.kind = "jsonValidationError"
        /\ call.res.Body.Type = "ParameterTypeError"

HandlerPanicked == call.fn.kind = "panic"

MentionsPanic(err) ==
    /\ err.kind # "nil"
    /\ \E i \in DOMAIN ErrorText(err) : ErrorText(err)[i] = "a fatal error occurred: "

\* the number of times the panic of the handler was recorded, in the log or by the hook
PanicRecords ==
    Cardinality({i \in DOMAIN call.log : call.log[i].line = "endpoint panic"})
    + Cardinality({i \in DOMAIN call.log :
                      call.log[i].line = "endpoint error" /\ MentionsPanic(call.log[i].err)})
    + Cardinality({i \in DOMAIN call.hooked : MentionsPanic(call.hooked[i].err)})

\* C3: a panic of the composed handler does not leave Call: the client is answered
\* with status 500 and the generic envelope, and the panic is recorded exactly once.
C3_PanicRecovered ==
    HandlerPanicked =>
        /\ call.pc # "panicked"
        /\ PanicRecords = 1
        /\ call.failure = NewError(<<"a fatal error occurred: ", call.fn.value>>)
        /\ call.pc \in {"write", "report", "done"} => call.res.Status = 500
        /\ Responded =>
                /\ Len(CallWrites) = 2
                /\ CallWrites[1].status = 500
                /\ CallWrites[2].bytes.doc = Envelope(call.failure)

\* a call whose handler panicked has ended with the 500 envelope written
C3_Witness ==
    /\ HandlerPanicked
    /\ call.pc = "done"
    /\ CallWrites[1].status = 500
    /\ Len(call.events) > 0

\* the handler returned, without an error, a Response marked Ignore
IgnoredResponse ==
    /\ call.fn.kind = "return"
    /\ call.fn.err.kind = "nil"
    /\ call.fn.output.kind = "Response"
    /\ call.fn.output.Ignore

\* C4: when the handler returns a Response with Ignore set and no error, Call
\* returns without calling WriteHeader or Write: the response writer holds what the
\* handler wrote on it and nothing else.
C4_IgnoreWritesNothing ==
    IgnoredResponse =>
        /\ CallWrites = <<>>
        /\ call.w = call.fn.writes
        /\ call.pc \in {"resolve", "done"}

\* a call whose handler answered by itself has ended
C4_Witness ==
    /\ IgnoredResponse
    /\ call.pc = "done"
    /\ call.w = HandlerWrites

\* m0(m1(...mk(f))) for the middleware <<m0, ..., mk>>, from the outermost inwards
RECURSIVE Nest(_, _)
Nest(ms, f) ==
    IF ms = <<>> THEN f
    ELSE [kind |-> "wrapped", by |-> Head(ms), next |-> Nest(Tail(ms), f)]

\* what a request sees of a chain m0(m1(...mk(f))) whose handler returns: m0 is
\* entered first and left last
ChainEvents(ms) ==
    [i \in 1..Len(ms) |-> [ev |-> "enter", of |-> ms[i]]]
    \o <<[ev |-> "call", of |-> UserFunc.name]>>
    \o [i \in 1..Len(ms) |-> [ev |-> "exit", of |-> ms[Len(ms) + 1 - i]]]

C5_Composed ==
    setup.pc = "defined" =>
        /\ ep.fullyWrappedFunc = Nest(spec.middleware, UserFunc)
        /\ (call.fn.kind = "return") => call.events = ChainEvents(spec.middleware)

\* C5: with the middleware [m0, ..., mk] the handler a request runs is
\* m0(m1(...mk(f))): m0 is the outermost; the composition is made once, by Define,
\* and no later step of the endpoint changes it.
C5_MiddlewareOrder ==
    /\ []C5_Composed
    /\ [][setup.pc = "defined" => ep'.fullyWrappedFunc = ep.fullyWrappedFunc]_vars

\* a request has run through all the middleware, m0 first, and the handler
C5_Witness ==
    /\ Len(spec.middleware) = MaxMiddleware
    /\ call.pc = "resolve"
    /\ call.fn.kind = "return"
    /\ Len(call.events) = 2 * MaxMiddleware + 1
    /\ call.events[1] = [ev |-> "enter", of |-> "m0"]

HasStep(name) == \E i \in DOMAIN call.steps : call.steps[i].step = name

StepRank(s) ==
    CASE s.step = "readBody" -> 1
      [] s.step = "convert" -> 2
      [] s.step = "validate" -> 3
      [] s.step = "unmarshal" -> 4

\* the request data of the call is valid against the data schema of the endpoint
DataValid ==
    /\ ep.bodyType.kind # "nil" => call.data.Req.Body.valid
    /\ Violations(ep.dataSchema,
                  JObject([n \in DOMAIN DataJson(ep, call.data) |->
                              IF n = "Body" THEN call.data.Req.Body.json
                              ELSE DataJson(ep, call.data)[n]]),
                  <<"(root)">>) = {}

\* C6: parseRequest reads the body, converts the parameters, validates the data
\* against the schema and deserializes the body, in this order; the body is
\* deserialized only when the validation succeeded, and the handler is invoked only
\* when parseRequest returned no error.
C6_StepOrder ==
    call.pc # "idle" =>
        /\ \A i, j \in DOMAIN call.steps :
              i < j => /\ StepRank(call.steps[i]) <= StepRank(call.steps[j])
                       /\ StepRank(call.steps[i]) = StepRank(call.steps[j])
                              => call.steps[i].step = "convert"
        /\ (ep.bodyType.kind # "nil" /\ ~HasStep("readBody")) => call.steps = <<>>
        /\ HasStep("unmarshal") => HasStep("validate") /\ DataValid
        /\ call.events # <<>> =>
              /\ call.parseErr.kind = "nil"
              /\ HasStep("validate")
              /\ ep.bodyType.kind # "nil" => HasStep("unmarshal")

\* a request with a body and a parameter went through all the steps and its
\* handler was invoked
C6_Witness ==
    /\ call.pc = "resolve"
    /\ call.events # <<>>
    /\ HasStep("readBody") /\ HasStep("convert") /\ HasStep("validate") /\ HasStep("unmarshal")

\* the names of the required parameters of the endpoint the request does not carry
MissingRequired ==
    {ep.query[i].Name : i \in {k \in DOMAIN ep.query :
            ep.query[k].Required /\ call.data.Req.Query[ep.query[k].Name] = ""}}
    \cup {ep.headers[i].Name : i \in {k \in DOMAIN ep.headers :
            ep.headers[k].Required /\ call.data.Req.Header[ep.headers[k].Name] = ""}}
    \cup {ep.params[loc].Name : loc \in {k \in DOMAIN ep.params :
            ep.params[k].Required /\ Len(SplitPath(call.data.Req.Path)) <= k}}

\* C7: a request that lacks a parameter declared required is answered with status
\* 400 and a validation error that names the parameter, and the handler is not
\* invoked.
C7_MissingRequiredParameter ==
    (call.pc \in {"report", "done", "panicked"} /\ MissingRequired # {}) =>
        /\ call.pc # "panicked"
        /\ CallWrites[1].status = 400
        /\ call.res.Body.kind = "jsonValidationError"
        /\ \A name \in MissingRequired :
              \E v \in call.res.Body.Errors : v.description = <<name, "is required">>
        /\ call.events = <<>>

\* the endpoint declares a body, and the body of the request was read and is no JSON
MalformedBody ==
    /\ ep.bodyType.kind # "nil"
    /\ call.data.Req.Body.io = "ok"
    /\ ~call.data.Req.Body.valid

\* C8: when the endpoint declares a body type and the body of the request is not
\* valid JSON, the request is answered with status 400 and the malformed-JSON error,
\* never with status 500, and the handler is not invoked.
C8_MalformedBody ==
    (call.pc \in {"report", "done"} /\ MalformedBody) =>
        /\ CallWrites[1].status = 400
        /\ call.res.Body.kind = "malformedJSONError"
        /\ call.events = <<>>

\* the body of the response does not satisfy the schema declared for its status
ResponseMismatch ==
    /\ call.res.Status \in DOMAIN ep.responseSchemas
    /\ Marshal(call.res.Body).err.kind = "nil"
    /\ Violations(ep.responseSchemas[call.res.Status], Marshal(call.res.Body).doc,
                  <<"(root)">>) # {}

\* the error text names a failed validation of the response
MentionsMismatch(err) ==
    /\ err.kind # "nil"
    /\ \E i \in DOMAIN ErrorText(err) :
          ErrorText(err)[i] = "response body failed validation for status "

\* the handler returned without an error
Returned == call.fn.kind = "return" /\ call.fn.err.kind = "nil"

\* the status and the body of what the handler returned
ReturnedStatus ==
    IF call.fn.output.kind = "Response" /\ call.fn.output.Status # 0
    THEN call.fn.output.Status ELSE 200
ReturnedBody ==
    IF call.fn.output.kind = "Response" THEN call.fn.output.Body ELSE call.fn.output

\* C9: a response whose body fails the schema declared for its status is written
\* with the status and body it has (those the handler returned); the mismatch only
\* shows in the error text handed to the hook, or printed to the log without a hook.
C9_MismatchNotFatal ==
    (call.pc \in {"write", "report", "done"} /\ ~IgnoredResponse /\ ResponseMismatch) =>
        /\ Returned => call.res.Status = ReturnedStatus /\ call.res.Body = ReturnedBody
        /\ \E i \in DOMAIN call.errs : MentionsMismatch(NewError(call.errs[i]))
        /\ Responded =>
              /\ CallWrites[1].op = "WriteHeader" /\ CallWrites[1].status = call.res.Status
              /\ call.res.Body.kind = "nil" => Len(CallWrites) = 1
              /\ call.res.Body.kind # "nil" =>
                    /\ Len(CallWrites) = 2
                    /\ CallWrites[2].bytes.doc = Marshal(call.res.Body).doc
        /\ call.pc = "done" =>
              IF spec.responseAndErrorHandler.kind # "nil"
              THEN /\ Len(call.hooked) = 1
                   /\ MentionsMismatch(call.hooked[1].err)
                   /\ call.hooked[1].res = call.res
              ELSE \E i \in DOMAIN call.log :
                      call.log[i].line = "endpoint error" /\ MentionsMismatch(call.log[i].err)

\* a handler returned status 200 and a body without the required title; both were
\* written as returned and the hook was told
C9_Witness ==
    /\ call.pc = "done"
    /\ Returned
    /\ ResponseMismatch
    /\ call.fn.output = Resp(FALSE, 200, Untitled, EmptyMap)
    /\ CallWrites[1].status = 200
    /\ CallWrites[2].bytes.doc = JObject(EmptyMap)
    /\ Len(call.hooked) = 1

\* C10: every Call the handler did not mark Ignore ends by invoking the hook exactly
\* once, after the status and body are written, with the Data of the request, the
\* final Response and the accumulated error; without a hook the error is printed
\* to the log instead.  The body may be nil.
C10_HookInvokedOnce ==
    (call.pc \in {"done", "panicked"} /\ ~IgnoredResponse) =>
        /\ Len(CallWrites) >= 1
        /\ spec.responseAndErrorHandler.kind # "nil" =>
              /\ Len(call.hooked) = 1
              /\ call.hooked[1] = [data |-> call.data, res |-> call.res, err |-> call.err]
              /\ call.err = IF call.errs # <<>> THEN NewError(Join(call.errs)) ELSE Nil
        /\ spec.responseAndErrorHandler.kind = "nil" =>
              /\ call.hooked = <<>>
              /\ Cardinality({i \in DOMAIN call.log : call.log[i].line = "endpoint error"}) = 1

\* the handler returned, without an error, a Response that is not marked Ignore
ReturnedResponse ==
    /\ Returned
    /\ call.fn.output.kind = "Response"
    /\ ~call.fn.output.Ignore

\* the status and the body written are those of the Response the handler returned,
\* with 200 for a status of 0
WrittenAsReturned ==
    /\ CallWrites[1].op = "WriteHeader"
    /\ CallWrites[1].status = ReturnedStatus
    /\ ReturnedBody.kind # "nil" =>
          /\ Len(CallWrites) = 2
          /\ CallWrites[2].bytes.doc = Marshal(ReturnedBody).doc

\* C11: when the handler returns without error a Response whose Status is 0 the
\* status written is 200, and a non-zero Status is written unchanged together with
\* the body of the handler, provided the body can be serialized to JSON.
C11_StatusDefault ==
    (ReturnedResponse /\ Responded /\ Marshal(ReturnedBody).err.kind = "nil") =>
        WrittenAsReturned

\* C11 as stated, for every body: the status written is 200 for a Status of 0 and
\* the Status of the handler otherwise.
C11_AsStated ==
    (ReturnedResponse /\ Responded) => CallWrites[1].status = ReturnedStatus

\* a Response with Status 0 and a body was written with status 200
C11_Witness ==
    /\ call.pc = "done"
    /\ call.fn.output = Resp(FALSE, 0, Titled, EmptyMap)
    /\ Returned
    /\ CallWrites[1].status = 200
    /\ CallWrites[2].bytes.doc = Titled.json

\* json.Marshal fails on the body of the response
MarshalFails == call.res.Body.kind # "nil" /\ Marshal(call.res.Body).err.kind # "nil"

\* the error text names a failed serialization of the body
MentionsMarshal(err) ==
    /\ err.kind # "nil"
    /\ \E i \in DOMAIN ErrorText(err) : ErrorText(err)[i] = "failed to marshal body "

\* C12: when the JSON serialization of the response body fails, the status written
\* is 500 whatever status the handler set, the body written is the generic
\* internal-error envelope, and the failure is added to the diagnostics.
C12_MarshalFailure ==
    (Responded /\ ~IgnoredResponse /\ MarshalFails) =>
        /\ Len(CallWrites) = 2
        /\ CallWrites[1].op = "WriteHeader" /\ CallWrites[1].status = 500
        /\ CallWrites[2].op = "Write"
        /\ CallWrites[2].bytes.doc = Envelope(Marshal(call.res.Body).err)
        /\ call.res.Status = 500
        /\ \E i \in DOMAIN call.errs : MentionsMarshal(NewError(call.errs[i]))
        /\ call.pc = "done" =>
              IF spec.responseAndErrorHandler.kind # "nil"
              THEN MentionsMarshal(call.hooked[1].err)
              ELSE \E i \in DOMAIN call.log :
                      call.log[i].line = "endpoint error" /\ MentionsMarshal(call.log[i].err)

\* a handler returned status 404 with a channel as body, and 500 was written
C12_Witness ==
    /\ call.pc = "done"
    /\ Returned
    /\ call.fn.output = Resp(FALSE, 404, Chan, EmptyMap)
    /\ CallWrites[1].status = 500
    /\ CallWrites[2].bytes.doc.fields.message = JString("Internal Server Error")

\* C13: when the resolved Response has a nil body, Call writes the status with
\* WriteHeader and never calls Write.
C13_NilBody ==
    (Responded /\ ~IgnoredResponse /\ call.res.Body.kind = "nil") =>
        /\ Len(CallWrites) = 1
        /\ CallWrites[1].op = "WriteHeader"
        /\ CallWrites[1].status = call.res.Status
        /\ \A i \in DOMAIN call.w : call.w[i].op # "Write"

\* a handler returned status 404 without a body, and only the status was written
C13_Witness ==
    /\ call.pc = "done"
    /\ Returned
    /\ call.fn.output = Resp(FALSE, 404, Nil, EmptyMap)
    /\ CallWrites = <<WriteHeader(404)>>

\* the names of the declared path parameters that have a placeholder
PathNames == {ep.params[k].Name : k \in DOMAIN ep.params}

\* the place of a declared parameter in the order query, path, header
LocRank(name) ==
    CASE name \in Names(ep.query) -> 1
      [] name \in PathNames -> 2
      [] OTHER -> 3

\* the declaration of the parameter called name
ParamOf(name) ==
    CASE name \in Names(ep.query) ->
            ep.query[CHOOSE i \in DOMAIN ep.query : ep.query[i].Name = name]
      [] name \in PathNames ->
            ep.params[CHOOSE k \in DOMAIN ep.params : ep.params[k].Name = name]
      [] OTHER ->
            ep.headers[CHOOSE i \in DOMAIN ep.headers : ep.headers[i].Name = name]

\* the offset of the path parameters in the path of the request
PathOffset == spec.basePathLength + (IF ep.version # 0 THEN 1 ELSE 0)

\* the text the request carries for the parameter called name
RawOf(name) ==
    CASE name \in Names(ep.query) -> call.data.Req.Query[name]
      [] name \in PathNames ->
            SplitPath(call.data.Req.Path)
                [(CHOOSE k \in DOMAIN ep.params : ep.params[k].Name = name) + PathOffset + 1]
      [] OTHER -> call.data.Req.Header[name]

FailsToConvert(name) == convertParamType(ParamOf(name), RawOf(name)).err.kind # "nil"

Converts(i) == call.steps[i].step = "convert"

\* the parts of the text of an error
Mentions(err, part) ==
    err.kind = "error" /\ \E i \in DOMAIN err.text : err.text[i] = part

\* C14: the parameters are converted in the order query, path, header, and the
\* first conversion that fails ends parseRequest with its error: no parameter is
\* converted after it, the validation and the deserialization of the body do not
\* run, and the handler is not invoked.
C14_ConversionOrder ==
    call.pc # "idle" =>
        /\ \A i, j \in DOMAIN call.steps :
              (i < j /\ Converts(i) /\ Converts(j)) =>
                  LocRank(call.steps[i].arg) <= LocRank(call.steps[j].arg)
        /\ \A i \in DOMAIN call.steps :
              (Converts(i) /\ FailsToConvert(call.steps[i].arg)) =>
                  /\ i = Len(call.steps)
                  /\ Mentions(call.parseErr, call.steps[i].arg)
                  /\ call.events = <<>>
                  /\ call.fn = NoOutcome

\* a request whose query parameter cannot be converted, and which carries a path
\* parameter and a header that could be: only the query parameter was tried
C14_Witness ==
    /\ call.pc = "done"
    /\ call.steps = <<Step("convert", "page")>>
    /\ FailsToConvert("page")
    /\ call.data.Req.Header["X-Dry-Run"] = "true"
    /\ call.data.Req.Path = <<"v1", "items", "10">>
    /\ call.data.Params = EmptyMap /\ call.data.Headers = EmptyMap

\* a request whose parameters were converted: query, then path, then header
C14_Ordered ==
    /\ call.pc = "run"
    /\ call.steps = <<Step("convert", "page"), Step("convert", "id"),
                      Step("convert", "X-Dry-Run"), Step("validate", "")>>

\* the declared query and header parameters for which the request carries no text
EmptyQuery == {n \in Names(ep.query) : call.data.Req.Query[n] = ""}
EmptyHeaders == {n \in Names(ep.headers) : call.data.Req.Header[n] = ""}

\* parseRequest ended in the validation against the data schema, which rejected
\* the request for the missing parameter called name
RejectedFor(name) ==
    /\ call.steps[Len(call.steps)].step = "validate"
    /\ IF ep.bodyType.kind # "nil" /\ ~call.data.Req.Body.valid
       THEN call.parseErr.kind = "malformedJSONError"
       ELSE /\ call.parseErr.kind = "jsonValidationError"
            /\ \E v \in call.parseErr.Errors : v.description = <<name, "is required">>

\* C15: a declared query or header parameter whose text in the request is empty is
\* not converted and is not in the Query or Headers map of the data; if it is
\* declared required, the handler is not invoked, no conversion error names the
\* parameter, and once parseRequest reaches the validation against the schema the
\* request is rejected there.
C15_EmptyRawSkipped ==
    call.pc # "idle" =>
        /\ \A i \in DOMAIN call.steps :
              Converts(i) => call.steps[i].arg \notin EmptyQuery \cup EmptyHeaders
        /\ \A n \in EmptyQuery : n \notin DOMAIN call.data.Query
        /\ \A n \in EmptyHeaders : n \notin DOMAIN call.data.Headers
        /\ \A n \in EmptyQuery \cup EmptyHeaders :
              ParamOf(n).Required =>
                  /\ ~Mentions(call.parseErr, n)
                  /\ call.events = <<>>
                  /\ call.pc # "run"
                  /\ HasStep("validate") => RejectedFor(n)

\* C15 as stated: whenever a required query or header parameter is empty, the
\* request fails the validation against the schema.
C15_AsStated ==
    (call.pc # "idle"
       /\ \E n \in EmptyQuery \cup EmptyHeaders : ParamOf(n).Required) =>
        call.parseErr.kind = "jsonValidationError"

\* a search without q and with limit=10: limit alone was converted, and the
\* validation rejected the request for q
C15_Witness ==
    /\ call.pc = "done"
    /\ "q" \in EmptyQuery
    /\ call.steps = <<Step("convert", "limit"), Step("validate", "")>>
    /\ DOMAIN call.data.Query = {"limit"}
    /\ RejectedFor("q")
    /\ CallWrites[1].status = 400

\* the index of the placeholder {name} in the URL template split on "/": the
\* template starts with "/", so its k-th segment is at index k
PlaceholderIndex(name) ==
    CHOOSE k \in DOMAIN setup.program.path :
        setup.program.path[k] = Placeholder(name)

\* the index at which the request path, split on "/", holds the parameter
SegmentIndex(name) ==
    PlaceholderIndex(name)
    + Cardinality({k \in DOMAIN spec.servers : spec.servers[k] # ""})
    + (IF ep.version # 0 THEN 1 ELSE 0)

\* the segment of the request path at Go index i
Segment(i) == SplitPath(call.data.Req.Path)[i + 1]

\* C16: a path parameter whose placeholder is at index i of the URL template split
\* on "/" is converted from the segment at index i + basePathLength + (1 if the
\* endpoint has a version, else 0) of the request path split on "/", basePathLength
\* being the number of non-empty segments of the path of the server URL.
C16_PathIndex ==
    call.pc # "idle" =>
        /\ spec.basePathLength = Cardinality({k \in DOMAIN spec.servers : spec.servers[k] # ""})
        /\ \A i \in DOMAIN call.steps :
              (Converts(i) /\ call.steps[i].arg \in PathNames) =>
                  LET name == call.steps[i].arg
                  IN /\ SegmentIndex(name) < Len(SplitPath(call.data.Req.Path))
                     /\ call.data.Params[name] =
                            convertParamType(ParamOf(name), Segment(SegmentIndex(name))).val
        /\ \A name \in PathNames :
              (HasStep("validate") /\ SegmentIndex(name) < Len(SplitPath(call.data.Req.Path)))
                  => \E i \in DOMAIN call.steps : Converts(i) /\ call.steps[i].arg = name

\* with the server URL path /api and version 1, the id of /items/{id} was read
\* from index 4 of /api/v1/items/10
C16_Witness ==
    /\ call.pc = "run"
    /\ spec.basePathLength = 1
    /\ ep.version = 1
    /\ call.data.Req.Path = <<"api", "v1", "items", "10">>
    /\ SegmentIndex("id") = 4
    /\ call.data.Params["id"] = JInteger(10)

\* the declared path parameters whose name is no placeholder of the URL template
Unplaced ==
    {ep.doc.Parameters[i].Name : i \in {k \in DOMAIN ep.doc.Parameters :
        /\ ep.doc.Parameters[k].In = InPath
        /\ \A s \in DOMAIN setup.program.path :
              setup.program.path[s] # Placeholder(ep.doc.Parameters[k].Name)}}

\* C17: an endpoint with a parameter declared in "path" whose name has no
\* placeholder in the URL template is refused by Define with an error; it is not
\* accepted and left to fail on each request.
C17_UnplacedPathParameter ==
    (setup.pc \in {"defined", "failed"} /\ Unplaced # {}) =>
        /\ setup.pc = "failed"
        /\ setup.err.kind # "nil"
        /\ spec.routes = {}

\* C18: Define returns an error for an endpoint that NewEndpoint created with an
\* operation id already registered on the same service.
C18_DuplicateOperationId ==
    (setup.pc \in {"defined", "failed"}
       /\ setup.program.operationId \in setup.program.earlier) =>
        /\ setup.pc = "failed"
        /\ setup.err.kind # "nil"

\* Call wrote the serialized body of the response
BodyWritten ==
    /\ Responded
    /\ ~IgnoredResponse
    /\ call.res.Body.kind # "nil"
    /\ Marshal(call.res.Body).err.kind = "nil"

\* the JSON text of a document with an indent of n spaces; n = 0 is compact JSON
Serialized(doc, n) == IF n > 0 THEN Indented(doc, n) ELSE Compact(doc)

\* C19: with the header Oas-Json-Indent holding an integer n, the body of the
\* response is serialized with an indent of n spaces (n = 0: compact JSON),
\* whatever the default indent of the service; without the header the default
\* indent applies.
C19_IndentHeader ==
    BodyWritten =>
        /\ IsIntegerText(call.header) =>
              CallWrites[2].bytes =
                  Serialized(Marshal(call.res.Body).doc, Atoi(call.header).val.val)
        /\ call.header = "" =>
              CallWrites[2].bytes = Serialized(Marshal(call.res.Body).doc, spec.jsonIndent)

\* the place of the call of WriteHeader among the calls Call made on the writer
StatusWrittenAt == CHOOSE i \in DOMAIN CallWrites : CallWrites[i].op = "WriteHeader"

\* C20: for every Response of the handler that is not ignored, each entry of its
\* Headers map is set on the response writer before the status is written.
C20_ResponseHeaders ==
    (ReturnedResponse /\ Responded) =>
        \A name \in DOMAIN call.fn.output.Headers :
            \E i \in DOMAIN CallWrites :
                /\ i < StatusWrittenAt
                /\ CallWrites[i].op = "Header.Set"
                /\ CallWrites[i].bytes = <<name, call.fn.output.Headers[name]>>


\* C21: once Define has returned, no step of a Call, alone or interleaved with the
\* steps of another Call, changes the endpoint: its request schema, its response
\* schemas, its path index map and its composed handler stay as Define left them.
C21_CallWritesNoField ==
    [][(setup.pc = "defined" /\ setup'.pc = "defined") =>
          /\ ep'.dataSchema = ep.dataSchema
          /\ ep'.responseSchemas = ep.responseSchemas
          /\ ep'.parsedPath = ep.parsedPath
          /\ ep'.fullyWrappedFunc = ep.fullyWrappedFunc
          /\ ep' = ep]_vars

\* two Calls are in flight at different places, one of them about to report
C21_Witness ==
    /\ setup.pc = "defined"
    /\ call.pc = "report"
    /\ other.pc = "run"
    /\ DOMAIN ep.parsedPath # {}


-----------------------------------------------------------------------------
(* Properties of Define *)

\* the declarations of the program that Define has compiled
Declarations == {setup.program.calls[i] : i \in 1..Len(setup.program.calls)}
DeclaredIn(in) == {d \in Declarations : d.op = "Parameter" /\ d.in = in}
DeclaredBody == {d \in Declarations : d.op = "RequestBody"}

\* the sub-schema of the composite holds the parameters declared in the location,
\* and requires those declared required
SubSchemaOf(property, in) ==
    LET sub == ep.dataSchema.properties[property]
    IN /\ DOMAIN sub.properties = {d.name : d \in DeclaredIn(in)}
       /\ sub.required = {d.name : d \in {x \in DeclaredIn(in) : x.required}}

BodyInSchema == "Body" \in DOMAIN ep.dataSchema.properties
BodyRequired == "Body" \in ep.dataSchema.required

\* C22: after Define, each of the sub-schemas Query, Params and Headers has as
\* properties the parameters declared in its location and as required list those
\* declared required; Body is a property of the composite schema exactly if a
\* request body was declared, and is in the required list of the composite exactly
\* if that body was declared required.
C22_CompositeSchema ==
    setup.pc = "defined" =>
        /\ SubSchemaOf("Query", InQuery)
        /\ SubSchemaOf("Params", InPath)
        /\ SubSchemaOf("Headers", InHeader)
        /\ BodyInSchema <=> DeclaredBody # {}
        /\ BodyRequired <=> \E d \in DeclaredBody : d.required
        /\ {"Query", "Params", "Headers"} \subseteq ep.dataSchema.required

\* C22 as the spec states it: Body is in the composite schema, and in its required
\* list, only if a request body was declared and marked required
C22_AsStated ==
    setup.pc = "defined" =>
        /\ SubSchemaOf("Query", InQuery)
        /\ SubSchemaOf("Params", InPath)
        /\ SubSchemaOf("Headers", InHeader)
        /\ BodyInSchema => \E d \in DeclaredBody : d.required
        /\ BodyRequired => \E d \in DeclaredBody : d.required

\* Define has compiled a declaration with a request body that is not required
C22_Witness ==
    /\ setup.pc = "defined"
    /\ \E d \in DeclaredBody : ~d.required
    /\ BodyInSchema
    /\ ~BodyRequired


\* documents to tell two compiled schemas apart
CandidateDocuments ==
    LET empty == JObject(EmptyMap)
        data(q) == JObject([Query |-> q, Params |-> empty, Headers |-> empty])
    IN {JNull, empty, JObject([title |-> JString("a")]), JObject([title |-> JInteger(10)]),
        data(empty), data(JObject([q |-> JString("a")])),
        data(JObject([q |-> JString("a"), limit |-> JString("a")]))}

\* the documents a compiled schema accepts; a schema that did not compile is nil
Accepted(schema) ==
    [compiled |-> schema.kind # "nil",
     documents |-> IF schema.kind = "nil" THEN {}
                   ELSE {doc \in CandidateDocuments : Violations(schema, doc, <<>>) = {}}]

\* C23: a second Define on the endpoint leaves a request schema and response
\* schemas that accept and reject the same documents as those of the first Define
C23_DefineTwice ==
    [][setup.pc = "defined" /\ setup'.pc = "redefined" =>
          /\ Accepted(ep'.dataSchema) = Accepted(ep.dataSchema)
          /\ DOMAIN ep'.responseSchemas = DOMAIN ep.responseSchemas
          /\ \A code \in DOMAIN ep.responseSchemas :
                Accepted(ep'.responseSchemas[code]) = Accepted(ep.responseSchemas[code])]_vars


\* C24: when SetDefaultJSONIndent or SetResponseAndErrorHandler was called after
\* Define, a later Call serializes a body that came without the indent header
\* with the indent the service holds now, and ends in the hook exactly if the
\* service holds one now: without one it prints to the log.
C24_SettersTakeEffect ==
    (setup.later /\ setup.pc = "defined") =>
        /\ (BodyWritten /\ call.header = "") =>
              CallWrites[2].bytes = Serialized(Marshal(call.res.Body).doc, spec.jsonIndent)
        /\ (call.pc = "done" /\ ~IgnoredResponse) =>
              IF spec.responseAndErrorHandler.kind # "nil"
              THEN /\ Len(call.hooked) = 1
                   /\ \A i \in DOMAIN call.log : call.log[i].line # "endpoint error"
              ELSE /\ call.hooked = <<>>
                   /\ \E i \in DOMAIN call.log : call.log[i].line = "endpoint error"

\* after Define the indent was set to 4 and a hook was registered; a Call then wrote
\* a body with that indent and ended in the hook
C24_Witness ==
    /\ setup.later
    /\ setup.pc = "defined"
    /\ spec.jsonIndent = 4
    /\ spec.responseAndErrorHandler = Hook
    /\ call.pc = "done"
    /\ BodyWritten
    /\ call.header = ""
    /\ CallWrites[2].bytes = Indented(Marshal(call.res.Body).doc, 4)
    /\ Len(call.hooked) = 1


\* parseRequest panicked: Call was left before the handler ran
ParsePanicked == call.pc = "panicked" /\ call.fn.kind = "none"

\* C25: parseRequest reads the split path only at indices below its length: a path
\* parameter whose segment the request path does not have is skipped, and no Call
\* is left by a panic of parseRequest.
C25_PathIndexInBounds ==
    /\ ~ParsePanicked
    /\ (call.pc # "idle" /\ setup.pc = "defined") =>
          \A name \in DOMAIN ep.parsedPath :
              SegmentIndex(name) >= Len(SplitPath(call.data.Req.Path)) =>
                  name \notin DOMAIN call.data.Params


\* the places of the calls of op among the calls Call made on the response writer
WritesOf(op) == {i \in DOMAIN CallWrites : CallWrites[i].op = op}

\* C26: at every point of every Call, whatever parseRequest, the handler, the
\* validation of the response and the serialization came to, Call has called
\* WriteHeader at most once and Write at most once on the response writer, and
\* no Write without a WriteHeader before it.
C26_WriteOnce ==
    /\ Cardinality(WritesOf("WriteHeader")) <= 1
    /\ Cardinality(WritesOf("Write")) <= 1
    /\ \A j \in WritesOf("Write") : \E i \in WritesOf("WriteHeader") : i < j
    /\ Len(CallWrites) = Cardinality(WritesOf("WriteHeader")) + Cardinality(WritesOf("Write"))

\* a Call whose response body failed to serialize has ended with one WriteHeader
\* and one Write
C26_Witness ==
    /\ call.pc = "done"
    /\ MarshalFails
    /\ Cardinality(WritesOf("WriteHeader")) = 1
    /\ Cardinality(WritesOf("Write")) = 1


\* the error Call handed to the hook, or printed to the log when there is no hook
ReportedError ==
    IF call.hooked # <<>> THEN call.hooked[Len(call.hooked)].err
    ELSE call.log[Len(call.log)].err

\* C27: a Call that answers for an error of parseRequest or of the handler hands a
\* non-nil error to the hook, or to the log when no hook is registered, also when
\* the body was written and nothing else went wrong.
C27_ErrorReported ==
    (call.pc = "done" /\ call.failure.kind # "nil") =>
        /\ call.res.Status \in {StatusBadRequest, StatusInternalServerError}
        /\ ReportedError.kind # "nil"


ReturnedValue == Returned /\ call.fn.output.kind # "Response"

\* C29: when the handler returns without error a value that is not a Response and
\* that can be serialized to JSON, Call writes status 200 with that value as the
\* JSON body (the status alone for a nil value), and the schema declared for
\* status 200, if there is one, is applied to it: a mismatch is among the errors
\* of the Call exactly if the value fails that schema.
C29_PlainValue ==
    (ReturnedValue /\ Responded /\ Marshal(call.fn.output).err.kind = "nil") =>
        /\ call.res.Status = StatusOK
        /\ call.res.Body = call.fn.output
        /\ WrittenAsReturned
        /\ call.fn.output.kind = "nil" => Len(CallWrites) = 1
        /\ (\E i \in DOMAIN call.errs : MentionsMismatch(NewError(call.errs[i])))
              <=> (/\ StatusOK \in DOMAIN ep.responseSchemas
                   /\ Violations(ep.responseSchemas[StatusOK], Marshal(call.fn.output).doc,
                                 <<"(root)">>) # {})

\* C29 as stated, for every value: the status written is 200
C29_AsStated ==
    (ReturnedValue /\ Responded) => CallWrites[1].status = StatusOK

\* a value without a title was written with status 200 on an endpoint whose schema
\* for 200 requires the title, and the mismatch was noted
C29_Witness ==
    /\ call.pc = "done"
    /\ call.fn = Returns(Untitled, Nil, <<>>)
    /\ StatusOK \in DOMAIN ep.responseSchemas
    /\ CallWrites[1].status = StatusOK
    /\ CallWrites[2].bytes.doc = Untitled.json
    /\ \E i \in DOMAIN call.errs : MentionsMismatch(NewError(call.errs[i]))


\* the versions the declaration has passed to Version so far, in the order passed
VersionsGiven ==
    LET done == SubSeq(setup.program.calls, 1, setup.pos)
        calls == SelectSeq(done, LAMBDA d : d.op = "Version")
    IN [i \in DOMAIN calls |-> calls[i].version]

\* the first positive version given, 0 if none was
FirstVersion ==
    LET positive == SelectSeq(VersionsGiven, LAMBDA v : v > 0)
    IN IF positive = <<>> THEN 0 ELSE positive[1]

====
